---- MODULE Spec2Model ----
(***************************************************************************)
(* DevTrackr: the request executor (githubFetch), the error taxonomy, the  *)
(* quota tracker it feeds, the retry driver (withRetry), the public        *)
(* operations, and the normalizers of languages and activity.              *)
(*                                                                         *)
(* JavaScript numbers are records [t, v]: t = "num" with the value v,      *)
(* t = "nan" for NaN, t = "undef" for undefined.  Header values are        *)
(* sequences of one-character strings, so that parseInt is computed.       *)
(***************************************************************************)
EXTENDS Integers, Sequences, FiniteSets, TLC

VARIABLES
    now,               \* Date.now(), in ms
    fpc,               \* githubFetch: "idle", "awaitFetch", "awaitErrorJson", "awaitJson", "returned", "thrown"
    calls,             \* githubFetch calls started so far
    requests,          \* transport requests issued by the current githubFetch call
    response,          \* the Response the current call received (status, headers)
    fetchError,        \* the error the current githubFetch call raised
    lastRateLimitInfo, \* utils/rateLimit: the process-wide snapshot
    opts,              \* withRetry: the merged options
    wpc,               \* withRetry: "init", "loop", "awaitFn", "sleeping", "returned", "thrown"
    attempt,           \* withRetry: the loop index
    invocations,       \* withRetry: calls of fn so far
    lastError,         \* withRetry: the local lastError
    raised,            \* withRetry: the error withRetry raised
    slept,             \* withRetry: the duration of the sleep in progress
    sleeps,            \* withRetry: sleeps started so far
    history,           \* withRetry: class of the error of each failed attempt, in order
    made,              \* quota tracker: per DevTrackr instance, the requests completed through it
    pending,           \* quota tracker: per DevTrackr instance, the requests in flight
    applied,           \* quota tracker: number of updates applied and the arguments of the last one
    readResult,        \* quota tracker: the last getRateLimitInfo() call and what it returned
    ppc,               \* githubFetchPaginated: "idle", "awaitPage", "returned", "thrown"
    currentUrl,        \* githubFetchPaginated: the page and per_page parameters of currentUrl
    hasMore,           \* githubFetchPaginated: the local hasMore
    allResults,        \* githubFetchPaginated: the pages pushed so far, in order
    pageRequests,      \* githubFetchPaginated: githubFetch calls made so far
    outstanding,       \* network requests issued and not yet settled
    instance,          \* createDevTrackr: "none", or "created" once it returned an instance
    config,            \* createDevTrackr: the token of the last call
    createError,       \* createDevTrackr: the error the last call raised
    opCalls,           \* public operations called so far
    opName,            \* the public operation called last
    opArg,             \* its username argument
    perPageOption,     \* the perPage option fetchUserCommits gets
    opc,               \* the operation: "idle", "awaitList", "awaitRepo", "returned", "thrown"
    opRequests,        \* requests the operation issued
    repoCount,         \* repositories the operation's loop goes through
    repoIndex,         \* the repository the loop is at
    collected,         \* fetchUserCommits: allCommits.length
    succeeded,         \* requests of the operation that returned
    failedCount,       \* requests of the operation that raised
    lastFailure,       \* the error of the last request that raised
    typedFailure,      \* a request raised an Auth, RateLimit or Network error
    opError,           \* the error the operation raised to its caller
    opResult,          \* fetchUserCommits: the length of the list returned
    requestInit,       \* githubFetch: the method, headers and body of the request passed to fetch
    requestToken,      \* githubFetch: the token option of that call
    lpc,               \* normalizeLanguageStats: "input", "returned"
    githubLanguageStats, \* normalizeLanguageStats: the byte counts, in insertion order of the names
    languageStats,     \* normalizeLanguageStats: the result; percentages in hundredths of a percent
    drift,             \* normalizeLanguageStats: totalPercentage - 100 before the adjustment, in hundredths
    apc,               \* normalize/activity: "input", "stats", "timeline"
    commitList,        \* normalize/activity: committedAt of the commits, in hours since day 0, 00:00 UTC
    tz,                \* normalize/activity: local time minus UTC of the process, in hours
    clock,             \* normalize/activity: new Date() at the call, in hours since the epoch
    stats,             \* calculateContributionStats: the result; avgCommitsPerWeek in hundredths
    timelineDays,      \* createActivityTimeline: the days argument
    timeline,          \* createActivityTimeline: the result; dates as UTC day numbers
    cpc,               \* fetchUserCommits: "input", "awaitCommits", "returned"
    repositories,      \* fetchUserCommits: the repositories argument
    commitOptions,     \* fetchUserCommits: options.perPage
    reposToCheck,      \* fetchUserCommits: the local reposToCheck
    commitIndex,       \* fetchUserCommits: position of the loop in reposToCheck
    allCommits,        \* fetchUserCommits: the local allCommits
    commitOutcome,     \* fetchUserCommits: how the last commit request settled
    commitsResult      \* fetchUserCommits: the list returned

fetchVars == <<now, fpc, calls, requests, response, fetchError, lastRateLimitInfo>>
retryVars == <<opts, wpc, attempt, invocations, lastError, raised, slept, sleeps, history>>
quotaVars == <<made, pending, applied, readResult>>
pageVars == <<ppc, currentUrl, hasMore, allResults, pageRequests>>
netVars == <<outstanding>>
opsVars == <<instance, config, createError, opCalls, opName, opArg, perPageOption, opc,
             opRequests, repoCount, repoIndex, collected, succeeded, failedCount,
             lastFailure, typedFailure, opError, opResult>>
\* the variables outside github/fetch.ts and utils/retry.ts
reqVars == <<requestInit, requestToken>>
langVars == <<lpc, githubLanguageStats, languageStats, drift>>
statVars == <<apc, commitList, tz, clock, stats, timelineDays, timeline>>
commitVars == <<cpc, repositories, commitOptions, reposToCheck, commitIndex, allCommits,
                commitOutcome, commitsResult>>
\* the variables of normalize/ and of fetchUserCommits
normVars == <<langVars, statVars, commitVars>>
\* the variables of the request layer and of the public operations
coreVars == <<fetchVars, retryVars, quotaVars, pageVars, netVars, opsVars, reqVars>>
auxVars == <<quotaVars, pageVars, netVars, opsVars, reqVars, normVars>>
vars == <<now, fpc, calls, requests, response, fetchError, lastRateLimitInfo,
          opts, wpc, attempt, invocations, lastError, raised, slept, sleeps, history,
          made, pending, applied, readResult,
          ppc, currentUrl, hasMore, allResults, pageRequests, outstanding,
          instance, config, createError, opCalls, opName, opArg, perPageOption, opc,
          opRequests, repoCount, repoIndex, collected, succeeded, failedCount,
          lastFailure, typedFailure, opError, opResult, requestInit, requestToken,
          lpc, githubLanguageStats, languageStats, drift,
          apc, commitList, tz, clock, stats, timelineDays, timeline,
          cpc, repositories, commitOptions, reposToCheck, commitIndex, allCommits,
          commitOutcome, commitsResult>>

----------------------------------------------------------------------------
(* Bounds *)

MaxCalls == 2
\* the largest maxRetries a caller passes to withRetry
MaxRetriesOption == 2
\* Math.random() returns n / RandSteps for some n in 0 .. RandSteps - 1
RandSteps == 4
\* DevTrackr instances created in one process, and requests made through them
MaxInstances == 2
MaxOps == 2
\* public operations a caller runs one after the other
MaxOpCalls == 2
\* repositories in the list the provider returns for a user
MaxRepos == 2
\* languages in a GitHubLanguageStats object, and the bytes of one language
MaxLanguages == 3
MaxBytes == 7
\* commits given to normalize/activity, and the largest days argument
MaxCommits == 3
MaxWindow == 2
\* the largest perPage option given to fetchUserCommits
MaxPerPage == 2

\* Instants the clock can show, and the strings a quota header can hold.
NowValues == {1000, 20000}
HeaderStrings == {<< >>, <<"0">>, <<"3">>, <<"x">>, <<"1", "2">>}
Statuses == {200, 299, 300, 401, 403, 404, 499, 500, 503}

----------------------------------------------------------------------------
(* JavaScript values *)

Num(n) == [t |-> "num", v |-> n]
NaN == [t |-> "nan", v |-> 0]
Undef == [t |-> "undef", v |-> 0]

IsNum(x) == x.t = "num"
\* ToBoolean of a number or undefined
Truthy(x) == x.t = "num" /\ x.v # 0
\* x * k for a number k
Times(x, k) == IF IsNum(x) THEN Num(x.v * k) ELSE NaN
\* x - n for a number n
Minus(x, n) == IF IsNum(x) THEN Num(x.v - n) ELSE NaN
\* x + n for a number n
Plus(x, n) == IF IsNum(x) THEN Num(x.v + n) ELSE NaN
\* Math.max(0, x): NaN if x is NaN
MathMax0(x) == IF IsNum(x) THEN (IF x.v > 0 THEN x ELSE Num(0)) ELSE NaN

Digits == <<"0", "1", "2", "3", "4", "5", "6", "7", "8", "9">>
IsDigit(c) == \E i \in 1..10 : Digits[i] = c
DigitVal(c) == (CHOOSE i \in 1..10 : Digits[i] = c) - 1

RECURSIVE DigitPrefix(_, _)
\* the value of the longest prefix of digits of s, continuing from acc
DigitPrefix(s, acc) ==
    IF s = << >> \/ ~IsDigit(Head(s)) THEN acc
    ELSE DigitPrefix(Tail(s), acc * 10 + DigitVal(Head(s)))

\* parseInt(s, 10): an optional sign, then the longest prefix of digits; NaN if none
parseInt(s) ==
    LET neg == s # << >> /\ Head(s) = "-"
        body == IF s # << >> /\ Head(s) \in {"-", "+"} THEN Tail(s) ELSE s
    IN IF body = << >> \/ ~IsDigit(Head(body)) THEN NaN
       ELSE Num((IF neg THEN -1 ELSE 1) * DigitPrefix(body, 0))

----------------------------------------------------------------------------
(* errors.ts *)

DevTrackrClasses ==
    {"DevTrackrError", "DevTrackrAuthError", "DevTrackrRateLimitError",
     "DevTrackrNetworkError", "DevTrackrValidationError"}

NoError ==
    [cls |-> "none", code |-> "none", message |-> "none", retryable |-> FALSE,
     retryAfter |-> Undef, maxRetries |-> Undef,
     limit |-> Undef, remaining |-> Undef, resetAt |-> Undef, seq |-> 0]

\* new DevTrackrError(message, code, retryInfo)
DevTrackrError(cls, message, code, retryable, retryAfter, maxRetries) ==
    [NoError EXCEPT !.cls = cls, !.code = code, !.message = message,
                    !.retryable = retryable, !.retryAfter = retryAfter,
                    !.maxRetries = maxRetries]

DevTrackrAuthError(message, code) ==
    DevTrackrError("DevTrackrAuthError", message, code, FALSE, Undef, Undef)

\* resetAt is the time value of the Date (NaN for an Invalid Date); t is Date.now()
DevTrackrRateLimitError(message, limit, remaining, resetAt, t) ==
    LET retryAfter == Minus(resetAt, t)
    IN [DevTrackrError("DevTrackrRateLimitError", message, "RATE_LIMIT_EXCEEDED",
                       TRUE, MathMax0(retryAfter), Num(1))
          EXCEPT !.limit = limit, !.remaining = remaining, !.resetAt = resetAt]

DevTrackrNetworkError(message, code, retryable) ==
    DevTrackrError("DevTrackrNetworkError", message, code, retryable, Undef,
                   IF retryable THEN Num(3) ELSE Num(0))

DevTrackrValidationError(message) ==
    DevTrackrError("DevTrackrValidationError", message, "VALIDATION_ERROR",
                   FALSE, Undef, Undef)

\* an error thrown by the runtime, not a DevTrackrError
RuntimeError(cls, message) ==
    [NoError EXCEPT !.cls = cls, !.message = message]

----------------------------------------------------------------------------
(* utils/rateLimit.ts *)

NullInfo == [set |-> FALSE, limit |-> Undef, remaining |-> Undef,
             resetAt |-> Undef, resetIn |-> Undef]

\* mutant: the reset header is taken for milliseconds
updateRateLimitInfo_ResetInMs(limit, remaining, reset, t) ==
    [set |-> TRUE, limit |-> limit, remaining |-> remaining,
     resetAt |-> reset, resetIn |-> MathMax0(Minus(reset, t))]

\* the snapshot updateRateLimitInfo(limit, remaining, reset) stores at time t
updateRateLimitInfo(limit, remaining, reset, t) ==
    LET resetAt == Times(reset, 1000)
    IN [set |-> TRUE, limit |-> limit, remaining |-> remaining,
        resetAt |-> resetAt, resetIn |-> MathMax0(Minus(resetAt, t))]

\* getRateLimitInfo() at time t: null is the record with null = TRUE
getRateLimitInfo(info, t) ==
    IF ~info.set
    THEN [null |-> TRUE, value |-> NullInfo]
    ELSE [null |-> FALSE,
          value |-> [info EXCEPT !.resetIn = MathMax0(Minus(info.resetAt, t))]]

----------------------------------------------------------------------------
(* github/fetch.ts *)

HeaderNames == {"x-ratelimit-limit", "x-ratelimit-remaining", "x-ratelimit-reset"}

\* every Headers object over the quota header names
HeaderMaps == UNION {[D -> HeaderStrings] : D \in SUBSET HeaderNames}

\* status 0: no response received; at: the time the response arrived
NoResponse == [status |-> 0, headers |-> << >>, at |-> 0]

\* mutant: an empty header value counts as a value
HeaderTruthy_PresentOnly(headers, name) == name \in DOMAIN headers

\* headers.get(name) is null or a string; a null or empty string is falsy
HeaderTruthy(headers, name) == name \in DOMAIN headers /\ headers[name] # << >>

NullHeaders == [set |-> FALSE, limit |-> Undef, remaining |-> Undef, reset |-> Undef]

parseRateLimitHeaders(headers) ==
    IF /\ HeaderTruthy(headers, "x-ratelimit-limit")
       /\ HeaderTruthy(headers, "x-ratelimit-remaining")
       /\ HeaderTruthy(headers, "x-ratelimit-reset")
    THEN [set |-> TRUE,
          limit |-> parseInt(headers["x-ratelimit-limit"]),
          remaining |-> parseInt(headers["x-ratelimit-remaining"]),
          reset |-> parseInt(headers["x-ratelimit-reset"])]
    ELSE NullHeaders

\* response.ok
ResponseOk(status) == status >= 200 /\ status <= 299

\* mutant: the remaining quota is not looked at
RemainingIsZero_Ignored(rl) == rl.set

\* rateLimitHeaders.remaining === 0
RemainingIsZero(rl) == rl.set /\ IsNum(rl.remaining) /\ rl.remaining.v = 0

\* mutant: every error status is retryable
ServerErrorRetryable_ClientToo(status) == status >= 400

\* retryable = response.status >= 500
ServerErrorRetryable(status) == status >= 500

\* mutant: the quota check comes first and does not look at the status
StatusError_QuotaFirst(status, rl, t) ==
    IF RemainingIsZero(rl) /\ status \in {401, 403}
    THEN DevTrackrRateLimitError("rate-limit", rl.limit, rl.remaining,
                                 Times(rl.reset, 1000), t)
    ELSE IF status \in {401, 403}
    THEN DevTrackrAuthError("invalid-token", "AUTH_INVALID_TOKEN")
    ELSE NoError

\* The error the status checks of githubFetch throw at time t, NoError if none
\* of them throws.  Date.prototype.toISOString throws a RangeError on an
\* Invalid Date.
StatusError(status, rl, t) ==
    IF status = 401
    THEN DevTrackrAuthError("invalid-token", "AUTH_INVALID_TOKEN")
    ELSE IF status = 403 /\ RemainingIsZero(rl)
    THEN LET resetAt == Times(rl.reset, 1000)
         IN IF ~IsNum(resetAt)
            THEN RuntimeError("RangeError", "Invalid time value")
            ELSE DevTrackrRateLimitError("rate-limit", rl.limit, rl.remaining, resetAt, t)
    ELSE IF status = 403
    THEN DevTrackrAuthError("forbidden", "AUTH_INSUFFICIENT_SCOPES")
    ELSE NoError

\* githubFetch up to `await fetch(url, requestInit)`
CallFetch ==
    /\ fpc \in {"idle", "returned", "thrown"}
    /\ calls < MaxCalls
    /\ calls' = calls + 1
    /\ requests' = 1
    /\ response' = NoResponse
    /\ fetchError' = NoError
    /\ fpc' = "awaitFetch"
    /\ UNCHANGED <<now, lastRateLimitInfo>>
    /\ UNCHANGED <<retryVars, auxVars>>

\* fetch rejects: the catch block
FetchRejects ==
    /\ fpc = "awaitFetch"
    /\ \E isError \in BOOLEAN :
         fetchError' = DevTrackrNetworkError(
                           IF isError THEN "network-error" ELSE "request-failed",
                           "NETWORK_ERROR", TRUE)
    /\ fpc' = "thrown"
    /\ UNCHANGED <<now, calls, requests, response, lastRateLimitInfo>>
    /\ UNCHANGED <<retryVars, auxVars>>

\* fetch resolves: quota headers, snapshot update, and the status checks
FetchResolves ==
    /\ fpc = "awaitFetch"
    /\ \E status \in Statuses, headers \in HeaderMaps :
         LET rl == parseRateLimitHeaders(headers)
             err == StatusError(status, rl, now)
         IN /\ response' = [status |-> status, headers |-> headers, at |-> now]
            /\ lastRateLimitInfo' =
                   IF rl.set
                   THEN updateRateLimitInfo(rl.limit, rl.remaining, rl.reset, now)
                   ELSE lastRateLimitInfo
            /\ fetchError' = err
            /\ fpc' = IF err # NoError THEN "thrown"
                      ELSE IF ~ResponseOk(status) THEN "awaitErrorJson"
                      ELSE "awaitJson"
    /\ UNCHANGED <<now, calls, requests>>
    /\ UNCHANGED <<retryVars, auxVars>>

\* `await response.json()` of a non-ok response settles: the body's message
\* replaces the default one, a parse failure is ignored
ErrorBodySettles ==
    /\ fpc = "awaitErrorJson"
    /\ \E hasMessage \in BOOLEAN :
         fetchError' = DevTrackrNetworkError(
                           IF hasMessage THEN "body-message" ELSE "status-text",
                           "API_ERROR", ServerErrorRetryable(response.status))
    /\ fpc' = "thrown"
    /\ UNCHANGED <<now, calls, requests, response, lastRateLimitInfo>>
    /\ UNCHANGED <<retryVars, auxVars>>

\* `await response.json()` of an ok response resolves
BodyParses ==
    /\ fpc = "awaitJson"
    /\ fpc' = "returned"
    /\ UNCHANGED <<now, calls, requests, response, fetchError, lastRateLimitInfo>>
    /\ UNCHANGED <<retryVars, auxVars>>

\* `await response.json()` of an ok response rejects
BodyParseFails ==
    /\ fpc = "awaitJson"
    /\ fetchError' = DevTrackrNetworkError("parse-failed", "API_ERROR", FALSE)
    /\ fpc' = "thrown"
    /\ UNCHANGED <<now, calls, requests, response, lastRateLimitInfo>>
    /\ UNCHANGED <<retryVars, auxVars>>

\* time passes
Tick ==
    /\ \E t \in NowValues : t > now /\ now' = t
    /\ UNCHANGED <<fpc, calls, requests, response, fetchError, lastRateLimitInfo>>
    /\ UNCHANGED <<retryVars, auxVars>>

\* no DevTrackr instance exists and the tracker was never used
QuotaIdle ==
    /\ made = << >>
    /\ pending = << >>
    /\ applied = [count |-> 0, limit |-> Undef, remaining |-> Undef, reset |-> Undef]
    /\ readResult = [by |-> 0, fresh |-> FALSE, at |-> 0, updates |-> 0,
                     null |-> TRUE, value |-> NullInfo]

\* no githubFetchPaginated call was made
PageIdle ==
    /\ ppc = "idle"
    /\ currentUrl = [page |-> Undef, perPage |-> Undef]
    /\ hasMore = FALSE
    /\ allResults = << >>
    /\ pageRequests = 0

NetIdle == outstanding = 0

\* an argument a caller passes: a string, or a value of another type
JsString(chars) == [type |-> "string", chars |-> chars, truthy |-> chars # << >>]
JsOther(type, truthy) == [type |-> type, chars |-> << >>, truthy |-> truthy]

\* createDevTrackr was not called
OpsIdle ==
    /\ instance = "none"
    /\ config = JsOther("undefined", FALSE)
    /\ createError = NoError
    /\ opCalls = 0
    /\ opName = "none"
    /\ opArg = JsOther("undefined", FALSE)
    /\ perPageOption = Undef
    /\ opc = "idle"
    /\ opRequests = 0
    /\ repoCount = 0
    /\ repoIndex = 0
    /\ collected = 0
    /\ succeeded = 0
    /\ failedCount = 0
    /\ lastFailure = NoError
    /\ typedFailure = FALSE
    /\ opError = NoError
    /\ opResult = 0

\* no request was built
NoRequest == [method |-> "none", headers |-> << >>, hasBody |-> FALSE]
ReqIdle == requestInit = NoRequest /\ requestToken = "none"

\* normalizeLanguageStats was given no input
NoLanguageStats == [totalBytes |-> 0, languages |-> << >>]
LangIdle ==
    /\ lpc = "input"
    /\ githubLanguageStats = << >>
    /\ languageStats = NoLanguageStats
    /\ drift = 0

\* the functions of normalize/activity were given no input
NoStats ==
    [totalCommits |-> 0, activeDays |-> 0, avgCommitsPerWeek |-> 0,
     longestStreak |-> 0, currentStreak |-> 0]
StatIdle ==
    /\ apc = "input"
    /\ commitList = << >>
    /\ tz = 0
    /\ clock = 0
    /\ stats = NoStats
    /\ timelineDays = 0
    /\ timeline = << >>

\* fetchUserCommits was given no input
CommitIdle ==
    /\ cpc = "input"
    /\ repositories = << >>
    /\ commitOptions = Undef
    /\ reposToCheck = << >>
    /\ commitIndex = 0
    /\ allCommits = << >>
    /\ commitOutcome = "none"
    /\ commitsResult = << >>

AuxIdle ==
    QuotaIdle /\ PageIdle /\ NetIdle /\ OpsIdle /\ ReqIdle /\ LangIdle /\ StatIdle /\ CommitIdle

RetryIdle ==
    /\ opts = [maxRetries |-> 0, baseDelay |-> 0, maxDelay |-> 0, retryable |-> "default"]
    /\ wpc = "init"
    /\ attempt = 0
    /\ invocations = 0
    /\ lastError = NoError
    /\ raised = NoError
    /\ slept = 0
    /\ sleeps = 0
    /\ history = << >>

InitFetch ==
    /\ now \in NowValues
    /\ fpc = "idle"
    /\ calls = 0
    /\ requests = 0
    /\ response = NoResponse
    /\ fetchError = NoError
    /\ lastRateLimitInfo = NullInfo
    /\ RetryIdle
    /\ AuxIdle

NextFetch ==
    \/ CallFetch
    \/ FetchRejects
    \/ FetchResolves
    \/ ErrorBodySettles
    \/ BodyParses
    \/ BodyParseFails
    \/ Tick

SpecFetch == InitFetch /\ [][NextFetch]_vars

----------------------------------------------------------------------------
(* utils/retry.ts *)

DefaultMaxRetries == 3
DefaultBaseDelay == 1000
DefaultMaxDelay == 60000

\* mutant: an error that is no DevTrackrError is retried
DefaultRetryable_RetryUnknown(error) ==
    IF error.cls \in DevTrackrClasses THEN error.retryable ELSE TRUE

\* DEFAULT_OPTIONS.retryable
DefaultRetryable(error) ==
    IF error.cls \in DevTrackrClasses THEN error.retryable ELSE FALSE

\* opts.retryable(error): the default predicate, or a caller's predicate that
\* accepts every error ("always") or none ("never")
IsRetryable(predicate, error) ==
    CASE predicate = "default" -> DefaultRetryable(error)
      [] predicate = "always" -> TRUE
      [] predicate = "never" -> FALSE

\* { ...DEFAULT_OPTIONS, ...options }: a key the caller leaves out (Undef, or
\* "absent" for the predicate) keeps its default
MergeOptions(options) ==
    [maxRetries |-> IF IsNum(options.maxRetries) THEN options.maxRetries.v
                    ELSE DefaultMaxRetries,
     baseDelay |-> IF IsNum(options.baseDelay) THEN options.baseDelay.v
                   ELSE DefaultBaseDelay,
     maxDelay |-> IF IsNum(options.maxDelay) THEN options.maxDelay.v
                  ELSE DefaultMaxDelay,
     retryable |-> IF options.retryable = "absent" THEN "default"
                   ELSE options.retryable]

\* the options callers pass
RetryOptions ==
    [maxRetries : {Undef} \cup {Num(n) : n \in -1 .. MaxRetriesOption},
     baseDelay : {Undef, Num(0), Num(10)},
     maxDelay : {Undef, Num(25)},
     retryable : {"absent", "always", "never"}]

RECURSIVE Pow2(_)
\* Math.pow(2, k)
Pow2(k) == IF k <= 0 THEN 1 ELSE 2 * Pow2(k - 1)

Min(a, b) == IF a <= b THEN a ELSE b

\* mutant: the delay is not capped at maxDelay
calculateDelay_NoCap(k, baseDelay, maxDelay, n) ==
    LET delay == baseDelay * Pow2(k)
    IN (delay * 10 * RandSteps + n * 3 * delay) \div (10 * RandSteps)

\* calculateDelay(attempt, baseDelay, maxDelay) when Math.random() returns
\* n / RandSteps: floor(delay + (n / RandSteps) * 0.3 * delay)
calculateDelay(k, baseDelay, maxDelay, n) ==
    LET delay == Min(baseDelay * Pow2(k), maxDelay)
    IN (delay * 10 * RandSteps + n * 3 * delay) \div (10 * RandSteps)

\* error.retryInfo.retryAfter || opts.baseDelay
WaitTime(error, baseDelay) ==
    IF Truthy(error.retryAfter) THEN error.retryAfter.v ELSE baseDelay

\* mutant: exhaustion raises a new error instead of the one caught
ExhaustedError_Wrapped(error) ==
    [RuntimeError("Error", "max-retries-exceeded") EXCEPT !.seq = error.seq]

\* `throw error` of the last attempt
ExhaustedError(error) == error

\* the reset instants of the quota errors fn raises
ResetInstants == {3000, 6000}

\* the errors the wrapped operation raises
FnErrors ==
    {DevTrackrAuthError("invalid-token", "AUTH_INVALID_TOKEN"),
     DevTrackrNetworkError("network-error", "NETWORK_ERROR", TRUE),
     DevTrackrNetworkError("status-text", "API_ERROR", TRUE),
     DevTrackrNetworkError("status-text", "API_ERROR", FALSE),
     DevTrackrValidationError("invalid-username"),
     RuntimeError("Error", "other")}
    \cup {DevTrackrRateLimitError("rate-limit", Num(60), Num(0), Num(r), t) :
            r \in ResetInstants, t \in NowValues}

\* loop test passes: `await fn()` starts
InvokeFn ==
    /\ wpc = "loop"
    /\ attempt <= opts.maxRetries
    /\ invocations' = invocations + 1
    /\ wpc' = "awaitFn"
    /\ UNCHANGED <<opts, attempt, lastError, raised, slept, sleeps, history>>
    /\ UNCHANGED <<fetchVars, auxVars>>

\* loop test fails: `throw lastError` after the loop
ThrowLast ==
    /\ wpc = "loop"
    /\ ~(attempt <= opts.maxRetries)
    /\ raised' = lastError
    /\ wpc' = "thrown"
    /\ UNCHANGED <<opts, attempt, invocations, lastError, slept, sleeps, history>>
    /\ UNCHANGED <<fetchVars, auxVars>>

\* fn resolves: withRetry returns its value
FnResolves ==
    /\ wpc = "awaitFn"
    /\ wpc' = "returned"
    /\ UNCHANGED <<opts, attempt, invocations, lastError, raised, slept, sleeps, history>>
    /\ UNCHANGED <<fetchVars, auxVars>>

\* fn rejects: the catch block, up to its throw or its `await sleep(...)`
FnRejects ==
    /\ wpc = "awaitFn"
    /\ \E e \in FnErrors, n \in 0 .. RandSteps - 1 :
         LET error == [e EXCEPT !.seq = invocations]
             waitTime == WaitTime(error, opts.baseDelay)
         IN /\ lastError' = error
            /\ history' = Append(history, error.cls)
            /\ IF ~IsRetryable(opts.retryable, error)
               THEN /\ raised' = error
                    /\ wpc' = "thrown"
                    /\ UNCHANGED <<slept, sleeps>>
               ELSE IF attempt = opts.maxRetries
               THEN /\ raised' = ExhaustedError(error)
                    /\ wpc' = "thrown"
                    /\ UNCHANGED <<slept, sleeps>>
               ELSE IF error.cls = "DevTrackrRateLimitError" /\ waitTime > 0
               THEN /\ slept' = waitTime
                    /\ sleeps' = sleeps + 1
                    /\ wpc' = "sleeping"
                    /\ UNCHANGED raised
               ELSE /\ slept' = calculateDelay(attempt, opts.baseDelay, opts.maxDelay, n)
                    /\ sleeps' = sleeps + 1
                    /\ wpc' = "sleeping"
                    /\ UNCHANGED raised
    /\ UNCHANGED <<opts, attempt, invocations>>
    /\ UNCHANGED <<fetchVars, auxVars>>

\* the sleep ends: `continue` or the end of the loop body, then attempt++
SleepEnds ==
    /\ wpc = "sleeping"
    /\ attempt' = attempt + 1
    /\ wpc' = "loop"
    /\ UNCHANGED <<opts, invocations, lastError, raised, slept, sleeps, history>>
    /\ UNCHANGED <<fetchVars, auxVars>>

FetchIdle ==
    /\ now = 0
    /\ fpc = "idle"
    /\ calls = 0
    /\ requests = 0
    /\ response = NoResponse
    /\ fetchError = NoError
    /\ lastRateLimitInfo = NullInfo

\* withRetry(fn, options) up to the loop
InitRetry ==
    /\ \E options \in RetryOptions : opts = MergeOptions(options)
    /\ wpc = "loop"
    /\ attempt = 0
    /\ invocations = 0
    /\ lastError = NoError
    /\ raised = NoError
    /\ slept = 0
    /\ sleeps = 0
    /\ history = << >>
    /\ FetchIdle
    /\ AuxIdle

NextRetry ==
    \/ InvokeFn
    \/ ThrowLast
    \/ FnResolves
    \/ FnRejects
    \/ SleepEnds

SpecRetry == InitRetry /\ [][NextRetry]_vars

----------------------------------------------------------------------------
(* The request executor: claims *)

FetchEnded == fpc \in {"returned", "thrown"}

\* the response carries the header, with a non-empty value
Carries(name) == name \in DOMAIN response.headers /\ response.headers[name] # << >>
CarriesAllQuotaHeaders == \A name \in HeaderNames : Carries(name)
HeaderNumber(name) == parseInt(response.headers[name])

\* C1 (as claimed): a 403 response that carries all three quota headers with
\* remaining == 0 raises DevTrackrRateLimitError, retryable, with limit and
\* remaining equal to the header values, resetAt = reset * 1000 and
\* retryAfter = max(0, resetAt - now).
C1_QuotaExceededOn403 ==
    (/\ response.status = 403
     /\ CarriesAllQuotaHeaders
     /\ HeaderNumber("x-ratelimit-remaining") = Num(0))
    => /\ fpc = "thrown"
       /\ fetchError.cls = "DevTrackrRateLimitError"
       /\ fetchError.retryable
       /\ fetchError.limit = HeaderNumber("x-ratelimit-limit")
       /\ fetchError.remaining = HeaderNumber("x-ratelimit-remaining")
       /\ fetchError.resetAt = Times(HeaderNumber("x-ratelimit-reset"), 1000)
       /\ fetchError.retryAfter = MathMax0(Minus(fetchError.resetAt, response.at))
       /\ IsNum(fetchError.retryAfter) /\ fetchError.retryAfter.v >= 0

\* C2: a 401 response raises an Auth error that is not retryable, whatever
\* quota headers it carries.
C2_Status401IsAuth ==
    response.status = 401
    => /\ fpc = "thrown"
       /\ fetchError.cls = "DevTrackrAuthError"
       /\ ~fetchError.retryable

\* a 401 that carries all quota headers with remaining == 0
C2_Witness ==
    /\ fpc = "thrown"
    /\ response.status = 401
    /\ CarriesAllQuotaHeaders
    /\ HeaderNumber("x-ratelimit-remaining") = Num(0)
    /\ IsNum(HeaderNumber("x-ratelimit-reset"))

\* C3: a 403 response that is not the quota-exhaustion case (a quota header
\* missing or empty, or remaining not 0) raises an Auth error for insufficient
\* scope that is not retryable.
C3_Other403IsAuth ==
    (/\ response.status = 403
     /\ \/ ~CarriesAllQuotaHeaders
        \/ HeaderNumber("x-ratelimit-remaining") # Num(0))
    => /\ fpc = "thrown"
       /\ fetchError.cls = "DevTrackrAuthError"
       /\ fetchError.code = "AUTH_INSUFFICIENT_SCOPES"
       /\ ~fetchError.retryable

\* a 403 with all quota headers and remaining > 0
C3_Witness ==
    /\ fpc = "thrown"
    /\ response.status = 403
    /\ CarriesAllQuotaHeaders
    /\ IsNum(HeaderNumber("x-ratelimit-remaining"))
    /\ HeaderNumber("x-ratelimit-remaining").v > 0

\* C4: a Network error is retryable iff it comes from a transport failure or
\* a status >= 500; any other non-2xx status except 401 and 403, and a 2xx
\* response whose body does not parse, raise a Network error that is not
\* retryable.
C4_NetworkRetryableIff ==
    fpc = "thrown"
    => /\ fetchError.cls = "DevTrackrNetworkError"
          => (fetchError.retryable
              <=> (response.status = 0 \/ response.status >= 500))
       /\ (response.status \notin {0, 401, 403} /\ response.status < 500)
          => (fetchError.cls = "DevTrackrNetworkError" /\ ~fetchError.retryable)
       /\ (response.status = 0 \/ response.status >= 500)
          => fetchError.cls = "DevTrackrNetworkError"

\* a client-error status just below 500 has raised
C4_Witness ==
    /\ fpc = "thrown"
    /\ response.status = 499
    /\ fetchError.cls = "DevTrackrNetworkError"

\* C5 (as claimed): a githubFetch call issues exactly one request and ends
\* either returning the body or raising one error of kind Auth, QuotaExceeded
\* or Network.
C5_OneRequestOneTypedOutcome ==
    FetchEnded
    => /\ requests = 1
       /\ fpc = "returned" => fetchError = NoError
       /\ fpc = "thrown"
          => fetchError.cls \in {"DevTrackrAuthError", "DevTrackrRateLimitError",
                                 "DevTrackrNetworkError"}

----------------------------------------------------------------------------
(* The retry driver: claims *)

\* every attempt so far failed, each with an error the predicate accepts
AllAttemptsFailedRetryable ==
    /\ Len(history) = invocations
    /\ invocations >= 1
    /\ CASE opts.retryable = "never" -> FALSE
         [] opts.retryable = "always" -> TRUE
         [] opts.retryable = "default" ->
              \A i \in 1 .. Len(history) :
                  history[i] \in {"DevTrackrRateLimitError", "DevTrackrNetworkError"}

\* C6: withRetry invokes the operation at most maxRetries + 1 times, each
\* attempt with an index in [0, maxRetries]; when every attempt failed with a
\* retryable error the error raised is the one of the last attempt, unchanged;
\* a normal return comes only from an attempt that succeeded.
C6_AttemptBudgetAndLastError ==
    /\ invocations <= opts.maxRetries + 1
    /\ wpc = "awaitFn" => (0 <= attempt /\ attempt <= opts.maxRetries)
    /\ (wpc = "thrown" /\ AllAttemptsFailedRetryable)
       => /\ raised = lastError
          /\ raised.seq = invocations
          /\ raised.cls = history[Len(history)]
          /\ raised \in {[e EXCEPT !.seq = invocations] : e \in FnErrors}
    /\ wpc = "returned" => Len(history) = invocations - 1

\* the budget is used up: maxRetries + 1 >= 2 attempts, all failed retryably
C6_Witness ==
    /\ wpc = "thrown"
    /\ AllAttemptsFailedRetryable
    /\ opts.maxRetries >= 1
    /\ invocations = opts.maxRetries + 1

\* isRetryable(error) is false by the claim's own reading: the caller's
\* predicate rejects it, or under the default predicate it is an Auth or
\* Validation error, a Network error flagged not retryable, or no
\* DevTrackrError at all
C7_NotRetryable(error) ==
    \/ opts.retryable = "never"
    \/ /\ opts.retryable = "default"
       /\ \/ error.cls \in {"DevTrackrAuthError", "DevTrackrValidationError", "Error"}
          \/ error.cls = "DevTrackrNetworkError" /\ ~error.retryable

\* C7: when the operation raises a non-retryable error, withRetry raises that
\* same error at once; raised by the first attempt, the operation was invoked
\* exactly once and withRetry slept zero times, for every maxRetries >= 0.
C7_NonRetryableFailsFast ==
    (lastError # NoError /\ C7_NotRetryable(lastError) /\ opts.maxRetries >= 0)
    => /\ wpc = "thrown"
       /\ raised = lastError
       /\ invocations = lastError.seq
       /\ sleeps = lastError.seq - 1
       /\ lastError.seq = 1 => (invocations = 1 /\ sleeps = 0)

\* a first attempt raised an error that is no DevTrackrError, with retries left
C7_Witness ==
    /\ wpc = "thrown"
    /\ opts.retryable = "default"
    /\ opts.maxRetries >= 1
    /\ lastError.cls = "Error"
    /\ lastError.seq = 1

\* C8 (as claimed): the sleep after a QuotaExceeded failure is exactly the
\* error's retryAfter, for every retryAfter >= 0, and baseDelay only when
\* retryAfter is unset.
C8_QuotaSleepIsRetryAfter ==
    (wpc = "sleeping" /\ lastError.cls = "DevTrackrRateLimitError")
    => slept = (IF IsNum(lastError.retryAfter) THEN lastError.retryAfter.v
                ELSE opts.baseDelay)

\* C9 (as claimed): an operation that raises QuotaExceeded on every attempt
\* is invoked at most twice, for every maxRetries >= 1.
C9_QuotaRetriedOnce ==
    (/\ opts.maxRetries >= 1
     /\ \A i \in 1 .. Len(history) : history[i] = "DevTrackrRateLimitError")
    => invocations <= 2

\* C10: after a retryable failure that is not QuotaExceeded at attempt k, the
\* sleep is d + jitter with d = min(baseDelay * 2^k, maxDelay) and
\* 0 <= jitter <= 0.3 * d.
C10_BackoffDelay ==
    (wpc = "sleeping" /\ lastError.cls # "DevTrackrRateLimitError")
    => LET cap == opts.maxDelay
           doubled == opts.baseDelay * (2 ^ attempt)
           d == IF doubled < cap THEN doubled ELSE cap
       IN /\ slept >= d
          /\ 10 * (slept - d) <= 3 * d

\* the third sleep of a backoff whose doubled delay has passed maxDelay,
\* with jitter
C10_Witness ==
    /\ wpc = "sleeping"
    /\ lastError.cls = "DevTrackrNetworkError"
    /\ attempt = 2
    /\ opts.baseDelay * 4 > opts.maxDelay
    /\ slept > opts.maxDelay

----------------------------------------------------------------------------
(* The quota tracker shared by the DevTrackr instances of one process *)

Instances == 1 .. Len(made)

RECURSIVE SumSeq(_)
SumSeq(q) == IF q = << >> THEN 0 ELSE Head(q) + SumSeq(Tail(q))

QuotaHeaders(limit, remaining, reset) ==
    [n \in HeaderNames |->
        CASE n = "x-ratelimit-limit" -> limit
          [] n = "x-ratelimit-remaining" -> remaining
          [] n = "x-ratelimit-reset" -> reset]

\* the quota headers of the responses: complete with differing values, with
\* a reset that is not numeric, incomplete, and absent
QuotaHeaderMaps ==
    {QuotaHeaders(<<"3">>, <<"3">>, <<"1", "2">>),
     QuotaHeaders(<<"1", "2">>, <<"1", "2">>, <<"3">>),
     QuotaHeaders(<<"1", "2">>, <<"3">>, <<"x">>),
     [n \in {"x-ratelimit-limit"} |-> <<"3">>],
     << >>}

\* createDevTrackr({ token }) with a valid token returns a new instance
CreateInstance ==
    /\ Len(made) < MaxInstances
    /\ made' = Append(made, 0)
    /\ pending' = Append(pending, 0)
    /\ UNCHANGED <<applied, readResult>>
    /\ UNCHANGED <<fetchVars, retryVars, pageVars, netVars, opsVars, reqVars, normVars>>

\* an operation of instance i reaches `await fetch(...)` in githubFetch
StartRequest ==
    /\ SumSeq(made) + SumSeq(pending) < MaxOps
    /\ \E i \in Instances : pending' = [pending EXCEPT ![i] = @ + 1]
    /\ UNCHANGED <<made, applied, readResult>>
    /\ UNCHANGED <<fetchVars, retryVars, pageVars, netVars, opsVars, reqVars, normVars>>

\* a response arrives for a request of instance i: githubFetch parses the
\* quota headers and updates the tracker before it looks at the status
RequestResolves ==
    /\ \E i \in Instances, headers \in QuotaHeaderMaps :
         LET rl == parseRateLimitHeaders(headers)
         IN /\ pending[i] > 0
            /\ pending' = [pending EXCEPT ![i] = @ - 1]
            /\ made' = [made EXCEPT ![i] = @ + 1]
            /\ IF rl.set
               THEN /\ lastRateLimitInfo' =
                          updateRateLimitInfo(rl.limit, rl.remaining, rl.reset, now)
                    /\ applied' = [count |-> applied.count + 1, limit |-> rl.limit,
                                   remaining |-> rl.remaining, reset |-> rl.reset]
               ELSE UNCHANGED <<lastRateLimitInfo, applied>>
    /\ UNCHANGED readResult
    /\ UNCHANGED <<now, fpc, calls, requests, response, fetchError>>
    /\ UNCHANGED <<retryVars, pageVars, netVars, opsVars, reqVars, normVars>>

\* the request of instance i fails in transport: the tracker is not called
RequestRejects ==
    /\ \E i \in Instances :
         /\ pending[i] > 0
         /\ pending' = [pending EXCEPT ![i] = @ - 1]
         /\ made' = [made EXCEPT ![i] = @ + 1]
    /\ UNCHANGED <<applied, readResult>>
    /\ UNCHANGED <<fetchVars, retryVars, pageVars, netVars, opsVars, reqVars, normVars>>

\* instance.getRateLimitInfo(): the module-level getRateLimitInfo()
ReadInfo ==
    /\ \E i \in Instances :
         LET r == getRateLimitInfo(lastRateLimitInfo, now)
         IN readResult' = [by |-> i, fresh |-> (made[i] = 0 /\ pending[i] = 0),
                           at |-> now, updates |-> applied.count,
                           null |-> r.null, value |-> r.value]
    /\ UNCHANGED <<made, pending, applied>>
    /\ UNCHANGED <<fetchVars, retryVars, pageVars, netVars, opsVars, reqVars, normVars>>

InitQuota ==
    /\ now \in NowValues
    /\ fpc = "idle"
    /\ calls = 0
    /\ requests = 0
    /\ response = NoResponse
    /\ fetchError = NoError
    /\ lastRateLimitInfo = NullInfo
    /\ RetryIdle
    /\ AuxIdle

NextQuota ==
    \/ CreateInstance
    \/ StartRequest
    \/ RequestResolves
    \/ RequestRejects
    \/ ReadInfo
    \/ Tick

SpecQuota == InitQuota /\ [][NextQuota]_vars

----------------------------------------------------------------------------
(* The quota tracker: claims *)

\* what a read at time t must return after the updates applied so far
C11_Expected(r, t) ==
    /\ r.null <=> applied.count = 0
    /\ ~r.null
       => /\ r.value.limit = applied.limit
          /\ r.value.remaining = applied.remaining
          /\ r.value.resetAt = Times(applied.reset, 1000)
          /\ r.value.resetIn = MathMax0(Minus(Times(applied.reset, 1000), t))

\* C11: a read returns null iff no update was ever applied, and otherwise the
\* limit, remaining and resetAt = reset * 1000 of the last update applied,
\* with resetIn = max(0, resetAt - now) at the time of the read, for every
\* interleaving of the operations' updates.
C11_ReadReturnsLastUpdate ==
    /\ C11_Expected(getRateLimitInfo(lastRateLimitInfo, now), now)
    /\ (readResult.by # 0 /\ readResult.updates = applied.count)
       => C11_Expected(readResult, readResult.at)

\* a read after two updates, the second with other values than the first,
\* made before the reset instant of the second
C11_Witness ==
    /\ readResult.by # 0
    /\ readResult.updates = 2
    /\ applied.count = 2
    /\ ~readResult.null
    /\ readResult.value.limit = Num(12)
    /\ readResult.value.resetAt = Num(3000)
    /\ readResult.value.resetIn = Num(2000)

\* C13 (as claimed): getRateLimitInfo() of an instance through which no
\* request has been made returns null, whatever other instances did before.
C13_FreshInstanceReadsNull ==
    (readResult.by # 0 /\ readResult.fresh) => readResult.null

----------------------------------------------------------------------------
(* The request executor and the quota snapshot: claims *)

\* the step of a githubFetch call on which its fetch settles
FetchSettles == fpc = "awaitFetch" /\ fpc' # "awaitFetch"

\* the response received on this step carries the three quota headers
ArrivesWithQuotaHeaders ==
    /\ response'.status # 0
    /\ \A name \in HeaderNames :
          name \in DOMAIN response'.headers /\ response'.headers[name] # << >>

\* the snapshot the headers received on this step describe
ArrivingSnapshot ==
    LET reset == parseInt(response'.headers["x-ratelimit-reset"])
    IN [set |-> TRUE,
        limit |-> parseInt(response'.headers["x-ratelimit-limit"]),
        remaining |-> parseInt(response'.headers["x-ratelimit-remaining"]),
        resetAt |-> Times(reset, 1000),
        resetIn |-> MathMax0(Minus(Times(reset, 1000), now))]

\* C12 (as claimed): githubFetch overwrites the snapshot when a successful
\* response carries quota headers, leaves it unchanged on a successful
\* response without them, which is not an error, and leaves it unchanged when
\* the call ends raising an error (401, 403, other non-2xx, transport failure).
C12_SnapshotOnlyOnSuccess ==
    [][FetchSettles
       => /\ (ResponseOk(response'.status) /\ ArrivesWithQuotaHeaders)
             => lastRateLimitInfo' = ArrivingSnapshot
          /\ (ResponseOk(response'.status) /\ ~ArrivesWithQuotaHeaders)
             => (lastRateLimitInfo' = lastRateLimitInfo /\ fpc' = "awaitJson")
          /\ ~ResponseOk(response'.status)
             => lastRateLimitInfo' = lastRateLimitInfo]_vars

\* C12 (amended): githubFetch overwrites the snapshot whenever a response
\* arrives that carries all three quota headers with non-empty values,
\* whatever its status; a response that lacks one and a transport failure
\* leave the snapshot unchanged, as does every other step; a successful
\* response without quota headers is not an error.
C12_SnapshotFollowsHeaders ==
    [][/\ (FetchSettles /\ ArrivesWithQuotaHeaders)
          => lastRateLimitInfo' = ArrivingSnapshot
       /\ ~(FetchSettles /\ ArrivesWithQuotaHeaders)
          => lastRateLimitInfo' = lastRateLimitInfo
       /\ (FetchSettles /\ ResponseOk(response'.status))
          => fpc' = "awaitJson"]_vars

\* the first call ended raising on a 403 whose quota headers are now the snapshot
C12_Witness ==
    /\ fpc = "thrown"
    /\ calls = 1
    /\ response.status = 403
    /\ CarriesAllQuotaHeaders
    /\ lastRateLimitInfo.set
    /\ lastRateLimitInfo.remaining = HeaderNumber("x-ratelimit-remaining")
    /\ lastRateLimitInfo.remaining = Num(0)

----------------------------------------------------------------------------
(* github/fetch.ts: githubFetchPaginated *)

\* `response.length === 100`: the size of a page taken as full
FullPage == 100
\* `url.searchParams.set('per_page', '100')`
NextPerPage == 100
\* `if (allResults.length > 10000) break`
SafetyLimit == 10000

\* the page and per_page parameters of the endpoints the callers pass;
\* a page parameter that is not a number parses to NaN
EndpointQueries ==
    [page : {Undef, Num(2), NaN}, perPage : {Undef, Num(30), Num(FullPage)}]

\* the sizes of the arrays the provider answers a page request with
PageSizes == {0, 1, 30, FullPage - 1, FullPage, FullPage + 1}

\* the bodies githubFetch returns: an array of `size` items, or one object
PageBodies == [array : {TRUE}, size : PageSizes] \cup {[array |-> FALSE, size |-> 1]}

RECURSIVE Length(_)
\* allResults.length
Length(results) ==
    IF results = << >> THEN 0 ELSE Head(results).size + Length(Tail(results))

\* mutant: the loop has no safety limit
SafetyLimitReached_Never(n) == FALSE

\* `allResults.length > 10000`
SafetyLimitReached(n) == n > SafetyLimit

\* `Array.isArray(response) && response.length === 100`
IsFullPage(body) == body.array /\ body.size = FullPage

\* parseInt(url.searchParams.get('page') || '1', 10) + 1, and per_page = 100
NextPageUrl(url) ==
    [page |-> Plus(IF url.page = Undef THEN Num(1) ELSE url.page, 1),
     perPage |-> Num(NextPerPage)]

\* githubFetchPaginated(options): the loop is entered and the first page requested
CallPaginated ==
    /\ ppc = "idle"
    /\ \E url \in EndpointQueries : currentUrl' = url
    /\ hasMore' = TRUE
    /\ allResults' = << >>
    /\ pageRequests' = 1
    /\ outstanding' = outstanding + 1
    /\ ppc' = "awaitPage"
    /\ UNCHANGED <<fetchVars, retryVars, quotaVars, opsVars, reqVars, normVars>>

\* githubFetch returns a body: it is pushed, then the loop requests the next
\* page or ends
PageArrives ==
    /\ ppc = "awaitPage"
    /\ \E body \in PageBodies :
         LET results == Append(allResults,
                               [req |-> pageRequests, size |-> body.size,
                                array |-> body.array, perPage |-> currentUrl.perPage])
             continues == IsFullPage(body) /\ ~SafetyLimitReached(Length(results))
         IN /\ allResults' = results
            /\ hasMore' = IsFullPage(body)
            /\ currentUrl' = IF IsFullPage(body) THEN NextPageUrl(currentUrl)
                             ELSE currentUrl
            /\ IF continues
               THEN /\ ppc' = "awaitPage"
                    /\ pageRequests' = pageRequests + 1
                    /\ outstanding' = outstanding
               ELSE /\ ppc' = "returned"
                    /\ pageRequests' = pageRequests
                    /\ outstanding' = outstanding - 1
    /\ UNCHANGED <<fetchVars, retryVars, quotaVars, opsVars, reqVars, normVars>>

\* githubFetch raises: the error leaves githubFetchPaginated
PageFails ==
    /\ ppc = "awaitPage"
    /\ ppc' = "thrown"
    /\ outstanding' = outstanding - 1
    /\ UNCHANGED <<currentUrl, hasMore, allResults, pageRequests>>
    /\ UNCHANGED <<fetchVars, retryVars, quotaVars, opsVars, reqVars, normVars>>

InitPaginate ==
    /\ now \in NowValues
    /\ fpc = "idle"
    /\ calls = 0
    /\ requests = 0
    /\ response = NoResponse
    /\ fetchError = NoError
    /\ lastRateLimitInfo = NullInfo
    /\ RetryIdle
    /\ AuxIdle

NextPaginate ==
    \/ CallPaginated
    \/ PageArrives
    \/ PageFails

SpecPaginate == InitPaginate /\ [][NextPaginate]_vars

----------------------------------------------------------------------------
(* githubFetchPaginated: claims *)

\* the requests the safety limit allows: full pages until the limit is passed
MaxPageRequests == SafetyLimit \div FullPage + 1

\* C14: githubFetchPaginated makes a bounded number of page requests,
\* whatever the provider answers, also when every page is full: the call has
\* ended once the page that takes the collection past the safety limit arrives.
C14_PageRequestsBounded ==
    /\ pageRequests <= MaxPageRequests
    /\ (ppc = "awaitPage" /\ pageRequests = MaxPageRequests)
       => \A body \in PageBodies :
             ~IsFullPage(body)
             \/ SafetyLimitReached(Length(allResults) + body.size)

\* the provider answered every request with a full page until the call returned
C14_Witness ==
    /\ ppc = "returned"
    /\ pageRequests = MaxPageRequests
    /\ \A k \in 1 .. Len(allResults) : IsFullPage(allResults[k])
    /\ Len(allResults) = MaxPageRequests

\* C15 (as claimed): the number of collected items never exceeds the safety
\* limit of 10000, during the loop and in the returned list.
C15_CollectedWithinLimit == Length(allResults) <= SafetyLimit

\* C16 (as claimed): a further page is requested exactly when the previous
\* page had as many items as the per_page its request asked for, and the
\* result is the pages in request order.
C16_ContinuesIffRequestedSizeFull ==
    /\ \A k \in 1 .. Len(allResults) :
          /\ allResults[k].req = k
          /\ (pageRequests > k)
             <=> (allResults[k].array /\ Num(allResults[k].size) = allResults[k].perPage)

----------------------------------------------------------------------------
(* createDevTrackr.ts and the github/ request functions it calls *)

\* `username.length > 39`
MaxUsernameLength == 39
\* `.slice(0, 10)`: the repositories fetchUserCommits asks for commits
ReposToCheck == 10
\* `options?.perPage || 100`
DefaultCommitLimit == 100
\* `{ perPage: 1000 }`
StatsPerPage == 1000

RECURSIVE Repeat(_, _)
Repeat(c, n) == IF n = 0 THEN << >> ELSE <<c>> \o Repeat(c, n - 1)

Whitespace == {" ", "\t", "\n"}

RECURSIVE TrimStart(_)
TrimStart(chars) ==
    IF chars # << >> /\ Head(chars) \in Whitespace THEN TrimStart(Tail(chars)) ELSE chars

RECURSIVE TrimEnd(_)
TrimEnd(chars) ==
    IF chars # << >> /\ chars[Len(chars)] \in Whitespace
    THEN TrimEnd(SubSeq(chars, 1, Len(chars) - 1))
    ELSE chars

\* String.prototype.trim
Trim(chars) == TrimEnd(TrimStart(chars))

\* the tokens and usernames callers pass
Tokens ==
    {JsOther("undefined", FALSE), JsOther("number", TRUE), JsString(<< >>),
     JsString(<<" ", "\t">>), JsString(<<"t">>)}

Usernames ==
    {JsOther("undefined", FALSE), JsOther("number", TRUE), JsString(<< >>),
     JsString(<<" ", "\n">>), JsString(<<" ", "a">>),
     JsString(Repeat("a", MaxUsernameLength)),
     JsString(Repeat("a", MaxUsernameLength + 1))}

\* the token checks of createDevTrackr: the error thrown, NoError if none
TokenError(token) ==
    IF ~token.truthy
    THEN DevTrackrValidationError("token-required")
    ELSE IF token.type # "string" \/ Len(Trim(token.chars)) = 0
    THEN DevTrackrValidationError("token-not-a-non-empty-string")
    ELSE NoError

\* mutant: the length of the username is not checked
validateUsername_NoLengthLimit(username) ==
    IF ~username.truthy
    THEN DevTrackrValidationError("username-required")
    ELSE IF username.type # "string"
    THEN DevTrackrValidationError("username-not-a-string")
    ELSE IF Len(Trim(username.chars)) = 0
    THEN DevTrackrValidationError("username-whitespace-only")
    ELSE NoError

\* validateUsername: the error thrown, NoError if none
validateUsername(username) ==
    IF ~username.truthy
    THEN DevTrackrValidationError("username-required")
    ELSE IF username.type # "string"
    THEN DevTrackrValidationError("username-not-a-string")
    ELSE IF Len(Trim(username.chars)) = 0
    THEN DevTrackrValidationError("username-whitespace-only")
    ELSE IF Len(username.chars) > MaxUsernameLength
    THEN DevTrackrValidationError("username-too-long")
    ELSE NoError

OpNames ==
    {"getProfile", "getRepositories", "getRecentCommits", "getLanguageStats",
     "getContributionStats", "getActivityTimeline"}

\* the operations that call fetchUserCommits after the repository list
CommitOps == {"getRecentCommits", "getContributionStats", "getActivityTimeline"}
\* the operations that make one request
SingleRequestOps == {"getProfile", "getRepositories"}

\* options.perPage as fetchUserCommits receives it from the operation
PerPageOptions(name) ==
    IF name = "getRecentCommits" THEN {Undef, Num(1)}
    ELSE IF name \in CommitOps THEN {Num(StatsPerPage)}
    ELSE {Undef}

\* `options?.perPage || 100`
CommitLimit(perPage) == IF Truthy(perPage) THEN perPage.v ELSE DefaultCommitLimit

\* the repositories the loop of the operation goes through, of n returned
LoopLength(name, n) == IF name \in CommitOps THEN Min(n, ReposToCheck) ELSE n

\* what the provider answers a request with: status 0 is a transport failure
OpHeaderMaps ==
    {<< >>,
     QuotaHeaders(<<"3">>, <<"0">>, <<"1", "2">>),
     QuotaHeaders(<<"3">>, <<"0">>, <<"x">>)}
OpResponses ==
    [status : {200, 401, 403, 500}, headers : OpHeaderMaps]
        \cup {[status |-> 0, headers |-> << >>]}

\* the commits one repository request returns
CommitCounts == {0, 1, DefaultCommitLimit}

\* the error githubFetch raises on this answer at time t, NoError if it returns
githubFetchError(resp, t) ==
    IF resp.status = 0
    THEN DevTrackrNetworkError("network-error", "NETWORK_ERROR", TRUE)
    ELSE LET err == StatusError(resp.status, parseRateLimitHeaders(resp.headers), t)
         IN IF err # NoError THEN err
            ELSE IF ~ResponseOk(resp.status)
            THEN DevTrackrNetworkError("status-text", "API_ERROR",
                                       ServerErrorRetryable(resp.status))
            ELSE NoError

\* the snapshot after githubFetch received this answer at time t
SnapshotAfter(resp, t) ==
    LET rl == parseRateLimitHeaders(resp.headers)
    IN IF resp.status # 0 /\ rl.set
       THEN updateRateLimitInfo(rl.limit, rl.remaining, rl.reset, t)
       ELSE lastRateLimitInfo

IsTypedFailure(error) ==
    error.cls \in {"DevTrackrAuthError", "DevTrackrRateLimitError", "DevTrackrNetworkError"}

\* mutant: the loops rethrow the library's own errors
CaughtInLoop_TypedRethrown(error) == error.cls \notin DevTrackrClasses

\* `catch { continue; }` around the request of one repository
CaughtInLoop(error) == TRUE

\* mutant: the requests of all remaining repositories are issued together
IssuedTogether_FanOut(remaining) == remaining

\* `await` inside the `for` loop: one request is issued, and the loop is
\* suspended until it settles
IssuedTogether(remaining) == 1

\* createDevTrackr(config)
createDevTrackr ==
    /\ instance = "none"
    /\ \E token \in Tokens :
         /\ config' = token
         /\ createError' = TokenError(token)
         /\ instance' = IF TokenError(token) = NoError THEN "created" ELSE "none"
    /\ UNCHANGED <<opCalls, opName, opArg, perPageOption, opc, opRequests, repoCount,
                   repoIndex, collected, succeeded, failedCount, lastFailure,
                   typedFailure, opError, opResult>>
    /\ UNCHANGED <<fetchVars, retryVars, quotaVars, pageVars, netVars, reqVars, normVars>>

\* a public operation is called: validateUsername, then the first request
CallOperation ==
    /\ instance = "created"
    /\ opc \in {"idle", "returned", "thrown"}
    /\ opCalls < MaxOpCalls
    /\ \E name \in OpNames, username \in Usernames :
         \E perPage \in PerPageOptions(name) :
            LET err == validateUsername(username)
            IN /\ opName' = name
               /\ opArg' = username
               /\ perPageOption' = perPage
               /\ opError' = err
               /\ opc' = IF err # NoError THEN "thrown" ELSE "awaitList"
               /\ opRequests' = IF err # NoError THEN 0 ELSE 1
               /\ outstanding' = IF err # NoError THEN outstanding ELSE outstanding + 1
    /\ opCalls' = opCalls + 1
    /\ repoCount' = 0
    /\ repoIndex' = 0
    /\ collected' = 0
    /\ succeeded' = 0
    /\ failedCount' = 0
    /\ lastFailure' = NoError
    /\ typedFailure' = FALSE
    /\ opResult' = 0
    /\ UNCHANGED <<instance, config, createError>>
    /\ UNCHANGED <<fetchVars, retryVars, quotaVars, pageVars, reqVars, normVars>>

\* the first request settles (fetchUser or fetchUserRepositories): an error
\* leaves the operation; a list starts the loop over the repositories
ListSettles ==
    /\ opc = "awaitList"
    /\ \E resp \in OpResponses, n \in 0 .. MaxRepos :
         LET err == githubFetchError(resp, now)
             len == LoopLength(opName, n)
         IN /\ lastRateLimitInfo' = SnapshotAfter(resp, now)
            /\ IF err # NoError
               THEN /\ opc' = "thrown"
                    /\ opError' = err
                    /\ failedCount' = failedCount + 1
                    /\ lastFailure' = err
                    /\ typedFailure' = IsTypedFailure(err)
                    /\ outstanding' = outstanding - 1
                    /\ UNCHANGED <<succeeded, repoCount, repoIndex, opRequests>>
               ELSE /\ succeeded' = succeeded + 1
                    /\ UNCHANGED <<opError, failedCount, lastFailure, typedFailure>>
                    /\ IF opName \in SingleRequestOps \/ len = 0
                       THEN /\ opc' = "returned"
                            /\ outstanding' = outstanding - 1
                            /\ UNCHANGED <<repoCount, repoIndex, opRequests>>
                       ELSE /\ opc' = "awaitRepo"
                            /\ repoCount' = len
                            /\ repoIndex' = 1
                            /\ opRequests' = opRequests + IssuedTogether(len)
                            /\ outstanding' = outstanding - 1 + IssuedTogether(len)
    /\ UNCHANGED <<instance, config, createError, opCalls, opName, opArg, perPageOption,
                   collected, opResult>>
    /\ UNCHANGED <<now, fpc, calls, requests, response, fetchError>>
    /\ UNCHANGED <<retryVars, quotaVars, pageVars, reqVars, normVars>>

\* the request of one repository settles in fetchUserCommits or
\* fetchUserLanguageStats: an error is caught and the repository skipped
RepoSettles ==
    /\ opc = "awaitRepo"
    /\ \E resp \in OpResponses :
       \E count \in (IF opName \in CommitOps THEN CommitCounts ELSE {0}) :
         LET err == githubFetchError(resp, now)
             total == IF err = NoError THEN collected + count ELSE collected
             limit == CommitLimit(perPageOption)
             done == \/ repoIndex = repoCount
                     \/ opName \in CommitOps /\ err = NoError /\ total >= limit
         IN /\ lastRateLimitInfo' = SnapshotAfter(resp, now)
            /\ collected' = total
            /\ IF err # NoError
               THEN /\ failedCount' = failedCount + 1
                    /\ lastFailure' = err
                    /\ typedFailure' = (typedFailure \/ IsTypedFailure(err))
                    /\ UNCHANGED succeeded
               ELSE /\ succeeded' = succeeded + 1
                    /\ UNCHANGED <<failedCount, lastFailure, typedFailure>>
            /\ IF err # NoError /\ ~CaughtInLoop(err)
               THEN /\ opc' = "thrown"
                    /\ opError' = err
                    /\ outstanding' = outstanding - 1
                    /\ UNCHANGED <<repoIndex, opRequests, opResult>>
               ELSE IF done
               THEN /\ opc' = "returned"
                    /\ opResult' = IF opName \in CommitOps THEN Min(total, limit) ELSE 0
                    /\ outstanding' = outstanding - 1
                    /\ UNCHANGED <<repoIndex, opRequests, opError>>
               ELSE /\ opc' = "awaitRepo"
                    /\ repoIndex' = repoIndex + 1
                    /\ opRequests' = opRequests + 1
                    /\ outstanding' = outstanding - 1 + IssuedTogether(repoCount - repoIndex)
                    /\ UNCHANGED <<opError, opResult>>
    /\ UNCHANGED <<instance, config, createError, opCalls, opName, opArg, perPageOption,
                   repoCount>>
    /\ UNCHANGED <<now, fpc, calls, requests, response, fetchError>>
    /\ UNCHANGED <<retryVars, quotaVars, pageVars, reqVars, normVars>>

InitOps ==
    /\ now \in NowValues
    /\ fpc = "idle"
    /\ calls = 0
    /\ requests = 0
    /\ response = NoResponse
    /\ fetchError = NoError
    /\ lastRateLimitInfo = NullInfo
    /\ RetryIdle
    /\ AuxIdle

NextOps ==
    \/ createDevTrackr
    \/ CallOperation
    \/ ListSettles
    \/ RepoSettles

SpecOps == InitOps /\ [][NextOps]_vars

\* one top-level operation at a time: public operations while
\* githubFetchPaginated was not called, githubFetchPaginated while no public
\* operation was
NextSerial ==
    \/ PageIdle /\ NextOps
    \/ OpsIdle /\ NextPaginate

SpecSerial == InitOps /\ [][NextSerial]_vars

----------------------------------------------------------------------------
(* The public operations: claims *)

\* the operations C17 names
FailureRaisingOps ==
    {"getRecentCommits", "getLanguageStats", "getContributionStats", "getActivityTimeline"}

\* C17 (as claimed): when a request of one of the four operations failed with
\* an Auth, RateLimit or Network error, the operation does not return a
\* result; it raises an error of one of the library's kinds.
C17_RequestFailureRaised ==
    (opName \in FailureRaisingOps /\ typedFailure)
    => /\ opc # "returned"
       /\ opc = "thrown" => opError.cls \in DevTrackrClasses

\* C17 (amended): the error of the first request of an operation (the user or
\* the repository list) is raised to the caller as githubFetch raised it; the
\* error of a request for one repository in fetchUserCommits or
\* fetchUserLanguageStats is caught, the repository is skipped, and the
\* operation goes on to the next repository and returns a result from the
\* requests that succeeded.
C17_OnlyFirstRequestFailureRaised ==
    /\ opc = "thrown"
       => \/ opRequests = 0 /\ opError = validateUsername(opArg) /\ failedCount = 0
          \/ opRequests = 1 /\ failedCount = 1 /\ succeeded = 0 /\ opError = lastFailure
    /\ opc = "returned"
       => /\ opError = NoError
          /\ succeeded >= 1
          /\ opRequests = succeeded + failedCount
          /\ failedCount > 0 => opName \in FailureRaisingOps
          /\ opName \in CommitOps => opResult = Min(collected, CommitLimit(perPageOption))
    /\ opc = "awaitRepo"
       => /\ opError = NoError
          /\ opRequests = succeeded + failedCount + 1
          /\ repoIndex = succeeded + failedCount

\* getLanguageStats returned although the request of one of two repositories
\* failed with a quota error
C17_Witness ==
    /\ opc = "returned"
    /\ opName = "getLanguageStats"
    /\ repoCount = 2
    /\ failedCount = 1
    /\ succeeded = 2
    /\ lastFailure.cls = "DevTrackrRateLimitError"

\* the tokens and usernames C18 calls invalid
InvalidToken(token) ==
    token.type # "string" \/ \A i \in 1 .. Len(token.chars) : token.chars[i] \in Whitespace
InvalidUsername(username) ==
    \/ username.type # "string"
    \/ \A i \in 1 .. Len(username.chars) : username.chars[i] \in Whitespace
    \/ Len(username.chars) > MaxUsernameLength

IsValidationError(error) ==
    /\ error.cls = "DevTrackrValidationError"
    /\ error.code = "VALIDATION_ERROR"
    /\ ~error.retryable

\* C18: createDevTrackr with a missing, empty, whitespace-only or non-string
\* token raises a Validation error and returns no instance; a public
\* operation called with an empty, non-string, whitespace-only or longer than
\* 39 characters username raises a non-retryable Validation error without
\* issuing a request and leaves the quota snapshot unchanged; every other
\* token gives an instance and every other username a first request.
C18_ValidationPrecedesIO ==
    [][/\ (config' # config \/ createError' # createError \/ instance' # instance)
          => IF InvalidToken(config')
             THEN IsValidationError(createError') /\ instance' = "none"
             ELSE createError' = NoError /\ instance' = "created"
       /\ (opCalls' = opCalls + 1)
          => IF InvalidUsername(opArg')
             THEN /\ opc' = "thrown"
                  /\ IsValidationError(opError')
                  /\ opRequests' = 0
                  /\ outstanding' = outstanding
                  /\ lastRateLimitInfo' = lastRateLimitInfo
             ELSE /\ opc' = "awaitList"
                  /\ opRequests' = 1
                  /\ outstanding' = outstanding + 1]_vars

\* a username of 40 characters was rejected after an earlier operation had
\* recorded a snapshot
C18_Witness ==
    /\ opc = "thrown"
    /\ opCalls = 2
    /\ Len(opArg.chars) = MaxUsernameLength + 1
    /\ IsValidationError(opError)
    /\ opRequests = 0
    /\ lastRateLimitInfo.set

\* C20: within one top-level operation at most one request is outstanding:
\* every request issued before has returned or failed when the next one is
\* issued, in the loops over repositories and in the loop over pages.
C20_OneRequestOutstanding ==
    /\ outstanding <= 1
    /\ outstanding = 1 <=> (opc \in {"awaitList", "awaitRepo"} \/ ppc = "awaitPage")
    /\ opRequests = succeeded + failedCount
                    + (IF opc \in {"awaitList", "awaitRepo"} THEN 1 ELSE 0)
    /\ pageRequests = Len(allResults) + (IF ppc \in {"awaitPage", "thrown"} THEN 1 ELSE 0)

\* the request for the second repository is in flight after the first failed
C20_Witness ==
    /\ opc = "awaitRepo"
    /\ repoCount = 2
    /\ repoIndex = 2
    /\ failedCount = 1
    /\ outstanding = 1

----------------------------------------------------------------------------
(* github/fetch.ts: the request githubFetch builds *)

PinnedAccept == "application/vnd.github.v3+json"

\* the options of a githubFetch call
RequestTokens == {"t1", "t2"}
RequestMethods == {"GET", "POST"}
CallerHeaderNames == {"Accept", "Authorization", "X-Request-Id"}
CallerHeaderValues == {"application/vnd.github.preview+json", "token t2", "1"}
CallerHeaders == UNION {[D -> CallerHeaderValues] : D \in SUBSET CallerHeaderNames}

\* { ...base, ...extra }
Spread(base, extra) ==
    [n \in DOMAIN base \cup DOMAIN extra |->
        IF n \in DOMAIN extra THEN extra[n] ELSE base[n]]

\* the headers githubFetch puts before the caller's
PinnedHeaders(token) ==
    [n \in {"Accept", "Authorization", "User-Agent"} |->
        CASE n = "Accept" -> PinnedAccept
          [] n = "Authorization" -> "token " \o token
          [] n = "User-Agent" -> "DevTrackr-SDK"]

\* requestHeaders as passed to fetch
RequestHeaders(token, headers, method, hasBody) ==
    LET spread == Spread(PinnedHeaders(token), headers)
    IN IF hasBody /\ method # "GET"
       THEN Spread(spread, [n \in {"Content-Type"} |-> "application/json"])
       ELSE spread

\* githubFetch(options) up to the call of fetch(url, requestInit)
BuildRequest ==
    /\ \E token \in RequestTokens, headers \in CallerHeaders,
          method \in RequestMethods, hasBody \in BOOLEAN :
         /\ requestToken' = token
         /\ requestInit' = [method |-> method,
                            headers |-> RequestHeaders(token, headers, method, hasBody),
                            hasBody |-> hasBody /\ method # "GET"]
    /\ UNCHANGED <<fetchVars, retryVars, quotaVars, pageVars, netVars, opsVars, normVars>>

InitRequest ==
    /\ now \in NowValues
    /\ fpc = "idle"
    /\ calls = 0
    /\ requests = 0
    /\ response = NoResponse
    /\ fetchError = NoError
    /\ lastRateLimitInfo = NullInfo
    /\ RetryIdle
    /\ AuxIdle

NextRequest == BuildRequest

SpecRequest == InitRequest /\ [][NextRequest]_vars

\* C19 (as claimed): every request githubFetch issues carries
\* Authorization: token <T> for the token of the call and Accept equal to
\* application/vnd.github.v3+json, whatever headers the caller passes.
C19_PinnedHeadersSent ==
    requestToken # "none"
    => /\ requestInit.headers["Accept"] = PinnedAccept
       /\ requestInit.headers["Authorization"] = "token " \o requestToken

----------------------------------------------------------------------------
(* normalize/languages.ts *)

\* the keys of a GitHubLanguageStats object, in insertion order
LanguageNames == <<"C", "Go", "Java", "Rust", "Zig">>

\* the objects normalizeLanguageStats is given: the i-th key inserted is
\* LanguageNames[i], with its bytes
LanguageInputs == UNION {[1 .. k -> 0 .. MaxBytes] : k \in 0 .. MaxLanguages}

\* Object.entries(githubLanguageStats)
Entries(input) ==
    [i \in 1 .. Len(input) |-> [name |-> LanguageNames[i], bytes |-> input[i]]]

RECURSIVE SumBytes(_)
\* Object.values(githubLanguageStats).reduce((sum, bytes) => sum + bytes, 0)
SumBytes(input) == IF input = << >> THEN 0 ELSE Head(input) + SumBytes(Tail(input))

\* Math.round(n / d) for d > 0: halves round up
RoundHalfUp(n, d) == (2 * n + d) \div (2 * d)

\* Math.round(((bytes / totalBytes) * 100) * 100) / 100, in hundredths
Percentage(bytes, totalBytes) == RoundHalfUp(bytes * 10000, totalBytes)

\* mutant: the comparator sorts ascending
compareBytes_Ascending(a, b) == a.bytes - b.bytes

\* (a, b) => b.bytes - a.bytes
compareBytes(a, b) == b.bytes - a.bytes

RECURSIVE InsertStable(_, _)
\* e put behind every element that does not sort after it
InsertStable(sorted, e) ==
    IF sorted = << >> THEN <<e>>
    ELSE IF compareBytes(Head(sorted), e) <= 0
    THEN <<Head(sorted)>> \o InsertStable(Tail(sorted), e)
    ELSE <<e>> \o sorted

RECURSIVE SortStable(_)
\* Array.prototype.sort with compareBytes: a stable sort
SortStable(entries) ==
    IF entries = << >> THEN << >>
    ELSE InsertStable(SortStable(SubSeq(entries, 1, Len(entries) - 1)),
                      entries[Len(entries)])

RECURSIVE SumPercentages(_)
\* languages.reduce((sum, lang) => sum + lang.percentage, 0), in hundredths
SumPercentages(languages) ==
    IF languages = << >> THEN 0
    ELSE Head(languages).percentage + SumPercentages(Tail(languages))

Abs(x) == IF x < 0 THEN -x ELSE x

\* The sum of the percentages is a sum of doubles.  When the percentages
\* are one hundredth off 100, `Math.abs(totalPercentage - 100)` lies one
\* rounding error above or below the double 0.01.  The lists of percentages
\* (in hundredths, in result order) of up to 4 languages of up to 8 bytes
\* each, evaluated in IEEE 754 double arithmetic in the order of the reduce:
\* those whose difference is greater than 0.01
SumsAboveTolerance ==
    {<<2632, 2632, 2632, 2105>>, <<2667, 2667, 2667, 2000>>, <<2759, 2414,
     2414, 2414>>, <<2778, 2778, 2778, 1667>>, <<2917, 2917, 2500, 1667>>,
     <<2917, 2917, 2917, 1250>>, <<2963, 2593, 2593, 1852>>, <<3043, 3043,
     2174, 1739>>, <<3043, 3043, 3043, 870>>, <<3077, 2692, 2692, 1538>>,
     <<3182, 2273, 2273, 2273>>, <<3182, 3182, 2273, 1364>>, <<3182, 3182,
     3182, 455>>, <<3333, 2222, 2222, 2222>>, <<3333, 2500, 2083, 2083>>,
     <<3333, 2857, 2857, 952>>, <<3333, 3333, 2000, 1333>>, <<3333, 3333, 2083,
     1250>>, <<3333, 3333, 2222, 1111>>, <<3333, 3333, 2381, 952>>, <<3333,
     3333, 2500, 833>>, <<3333, 3333, 2857, 476>>, <<3333, 3333, 3333>>,
     <<3333, 3333, 3333, 0>>, <<3529, 2941, 2941, 588>>, <<3529, 3529, 1765,
     1176>>, <<3529, 3529, 2353, 588>>, <<3529, 3529, 2941>>, <<3529, 3529,
     2941, 0>>, <<3571, 2857, 2857, 714>>, <<3571, 3571, 2143, 714>>, <<3636,
     2727, 2727, 909>>, <<3636, 3636, 2727>>, <<3636, 3636, 2727, 0>>, <<3684,
     2105, 2105, 2105>>, <<3684, 2632, 2632, 1053>>, <<3810, 3810, 1429, 952>>,
     <<3810, 3810, 1905, 476>>, <<3810, 3810, 2381>>, <<3810, 3810, 2381, 0>>,
     <<3846, 3077, 1538, 1538>>, <<3846, 3846, 1538, 769>>, <<3889, 2778, 1667,
     1667>>, <<3889, 2778, 2778, 556>>, <<3889, 3889, 1667, 556>>, <<4000,
     2667, 2667, 667>>, <<4000, 3333, 1333, 1333>>, <<4118, 2353, 1765, 1765>>,
     <<4167, 2500, 1667, 1667>>, <<4167, 4167, 1667>>, <<4167, 4167, 1667, 0>>,
     <<4211, 2632, 2105, 1053>>, <<4211, 2632, 2632, 526>>, <<4211, 3684, 1053,
     1053>>, <<4211, 4211, 1053, 526>>, <<4444, 2222, 2222, 1111>>, <<4444,
     3333, 1111, 1111>>, <<4444, 3333, 2222>>, <<4444, 3333, 2222, 0>>, <<4444,
     4444, 1111>>, <<4444, 4444, 1111, 0>>, <<4545, 2727, 2727>>, <<4545, 2727,
     2727, 0>>, <<4615, 2308, 1538, 1538>>, <<4615, 3077, 1538, 769>>, <<4615,
     3846, 769, 769>>, <<4615, 3846, 1538>>, <<4615, 3846, 1538, 0>>, <<4615,
     4615, 769>>, <<4615, 4615, 769, 0>>, <<4667, 2667, 2000, 667>>, <<4667,
     2667, 2667>>, <<4667, 2667, 2667, 0>>, <<4667, 4000, 667, 667>>, <<4667,
     4667, 667>>, <<4667, 4667, 667, 0>>, <<4706, 1765, 1765, 1765>>, <<4706,
     3529, 1176, 588>>, <<5000, 1667, 1667, 1667>>, <<5000, 3333, 833, 833>>,
     <<5333, 2000, 1333, 1333>>, <<5333, 3333, 1333>>, <<5333, 3333, 1333, 0>>,
     <<5385, 1538, 1538, 1538>>, <<5385, 2308, 2308>>, <<5385, 2308, 2308, 0>>,
     <<5714, 3571, 714>>, <<5714, 3571, 714, 0>>, <<5833, 2500, 833, 833>>,
     <<5833, 3333, 833>>, <<5833, 3333, 833, 0>>, <<6154, 1538, 1538, 769>>,
     <<6667, 1667, 1667>>, <<6667, 1667, 1667, 0>>}

\* and those whose difference is not greater than 0.01
SumsWithinTolerance ==
    {<<2581, 2581, 2581, 2258>>, <<2593, 2593, 2593, 2222>>, <<2609, 2609,
     2609, 2174>>, <<2692, 2692, 2692, 1923>>, <<2727, 2727, 2727, 1818>>,
     <<2759, 2759, 2414, 2069>>, <<2759, 2759, 2759, 1724>>, <<2941, 2941,
     2941, 1176>>, <<3043, 3043, 2609, 1304>>, <<3077, 2308, 2308, 2308>>,
     <<3158, 2632, 2632, 1579>>, <<3158, 3158, 2632, 1053>>, <<3478, 3043,
     1739, 1739>>, <<3478, 3043, 2174, 1304>>, <<3478, 3043, 3043, 435>>,
     <<3478, 3478, 1739, 1304>>, <<3478, 3478, 3043>>, <<3478, 3478, 3043, 0>>,
     <<3529, 2941, 2353, 1176>>, <<3571, 3571, 2857>>, <<3571, 3571, 2857, 0>>,
     <<3636, 2727, 1818, 1818>>, <<3636, 3636, 1818, 909>>, <<3684, 3684, 2105,
     526>>, <<3810, 2381, 1905, 1905>>, <<3810, 2381, 2381, 1429>>, <<3810,
     2857, 1905, 1429>>, <<3810, 3333, 1429, 1429>>, <<4118, 3529, 1176,
     1176>>, <<4118, 4118, 1765>>, <<4118, 4118, 1765, 0>>, <<4211, 2632, 1579,
     1579>>, <<4211, 3158, 1579, 1053>>, <<4211, 3158, 2632>>, <<4211, 3158,
     2632, 0>>, <<4211, 4211, 1579>>, <<4211, 4211, 1579, 0>>, <<4286, 2143,
     2143, 1429>>, <<4286, 2857, 1429, 1429>>, <<4286, 4286, 1429>>, <<4286,
     4286, 1429, 0>>, <<4545, 1818, 1818, 1818>>, <<4545, 2727, 1818, 909>>,
     <<4545, 3636, 909, 909>>, <<4545, 3636, 1818>>, <<4545, 3636, 1818, 0>>,
     <<4545, 4545, 909>>, <<4545, 4545, 909, 0>>, <<4706, 2941, 1176, 1176>>,
     <<5000, 2143, 1429, 1429>>, <<5000, 3571, 714, 714>>, <<5714, 1429, 1429,
     1429>>, <<5714, 2857, 714, 714>>, <<7143, 1429, 1429>>, <<7143, 1429,
     1429, 0>>}

\* the percentages of a list, in hundredths
Hundredths(languages) == [i \in 1 .. Len(languages) |-> languages[i].percentage]

\* `Math.abs(totalPercentage - 100) > 0.01`; for a list one hundredth off
\* that is in neither table the comparison can go either way (floatAbove)
ExceedsTolerance(languages, floatAbove) ==
    LET d == SumPercentages(languages) - 10000
    IN \/ Abs(d) > 1
       \/ /\ Abs(d) = 1
          /\ \/ Hundredths(languages) \in SumsAboveTolerance
             \/ Hundredths(languages) \notin SumsWithinTolerance /\ floatAbove

\* normalizeLanguageStats(githubLanguageStats)
normalizeLanguageStats(input, floatAbove) ==
    LET totalBytes == SumBytes(input)
        languageEntries == SortStable(Entries(input))
        languages ==
            [i \in 1 .. Len(languageEntries) |->
                [name |-> languageEntries[i].name,
                 percentage |-> Percentage(languageEntries[i].bytes, totalBytes)]]
        d == SumPercentages(languages) - 10000
    IN IF totalBytes = 0 THEN NoLanguageStats
       ELSE [totalBytes |-> totalBytes,
             languages |->
                 IF Len(languages) > 0 /\ ExceedsTolerance(languages, floatAbove)
                 THEN [languages EXCEPT ![1].percentage = @ - d]
                 ELSE languages]

\* totalPercentage - 100 before the adjustment, in hundredths
Drift(input) ==
    LET totalBytes == SumBytes(input)
        languageEntries == SortStable(Entries(input))
    IN IF totalBytes = 0 THEN 0
       ELSE SumBytes([i \in 1 .. Len(languageEntries) |->
                         Percentage(languageEntries[i].bytes, totalBytes)]) - 10000

\* normalizeLanguageStats is called and returns
NormalizeLanguages ==
    /\ lpc = "input"
    /\ \E floatAbove \in BOOLEAN :
         languageStats' = normalizeLanguageStats(githubLanguageStats, floatAbove)
    /\ drift' = Drift(githubLanguageStats)
    /\ lpc' = "returned"
    /\ UNCHANGED githubLanguageStats
    /\ UNCHANGED <<coreVars, statVars, commitVars>>

InitLanguages ==
    /\ githubLanguageStats \in LanguageInputs
    /\ lpc = "input"
    /\ languageStats = NoLanguageStats
    /\ drift = 0
    /\ FetchIdle
    /\ RetryIdle
    /\ QuotaIdle /\ PageIdle /\ NetIdle /\ OpsIdle /\ ReqIdle /\ StatIdle /\ CommitIdle

NextLanguages == NormalizeLanguages

SpecLanguages == InitLanguages /\ [][NextLanguages]_vars

----------------------------------------------------------------------------
(* normalizeLanguageStats: claims *)

\* the position of a name among the keys of the input
InputIndex(name) == CHOOSE i \in 1 .. Len(LanguageNames) : LanguageNames[i] = name
\* the bytes the input gives for the i-th entry of the result
BytesOf(i) == githubLanguageStats[InputIndex(languageStats.languages[i].name)]

\* C26 (as claimed): with a positive total the percentages, to 2 decimal
\* places, sum to exactly 100.00; with a zero total the list is empty and
\* totalBytes is 0.
C26_PercentagesSumTo100 ==
    lpc = "returned"
    => IF SumBytes(githubLanguageStats) > 0
       THEN SumPercentages(languageStats.languages) = 10000
       ELSE languageStats.languages = << >> /\ languageStats.totalBytes = 0

\* the entries of the result are the input languages, each once, by
\* descending bytes, ties in insertion order
OnePerLanguageByBytes ==
    /\ Len(languageStats.languages) = Len(githubLanguageStats)
    /\ \A i \in 1 .. Len(languageStats.languages) :
          InputIndex(languageStats.languages[i].name) \in 1 .. Len(githubLanguageStats)
    /\ \A i, j \in 1 .. Len(languageStats.languages) :
          i < j => \/ BytesOf(i) > BytesOf(j)
                   \/ /\ BytesOf(i) = BytesOf(j)
                      /\ InputIndex(languageStats.languages[i].name)
                            < InputIndex(languageStats.languages[j].name)

\* C27 (as claimed): the result has exactly one entry per input language, by
\* descending raw bytes, equal bytes in order of first occurrence.
C27_OneEntryPerLanguageSorted == lpc = "returned" => OnePerLanguageByBytes

\* C27 (amended): when the total byte count is positive the result has
\* exactly one entry per input language (also for a language with 0 bytes),
\* by descending raw bytes, equal bytes in insertion order, whether or not
\* the first percentage was adjusted; when the total is zero the result has
\* no entry, whatever the number of input languages.
C27_SortedWhenTotalPositive ==
    lpc = "returned"
    => IF SumBytes(githubLanguageStats) > 0
       THEN OnePerLanguageByBytes
       ELSE languageStats.languages = << >>

\* three languages, the two largest tied and inserted after the smallest,
\* and the first percentage adjusted
C27_Witness ==
    /\ lpc = "returned"
    /\ githubLanguageStats = <<1, 7, 7>>
    /\ languageStats.languages[1].name = "Go"
    /\ languageStats.languages[2].name = "Java"
    /\ languageStats.languages[3].name = "C"
    /\ SumPercentages(languageStats.languages) = 10000
    /\ drift = 1

\* C30 (as claimed): every percentage of the result lies in [0, 100] and the
\* percentages do not increase along the list, also after the adjustment.
C30_PercentagesNonIncreasing ==
    lpc = "returned"
    => /\ \A i \in 1 .. Len(languageStats.languages) :
             /\ languageStats.languages[i].percentage >= 0
             /\ languageStats.languages[i].percentage <= 10000
       /\ \A i \in 1 .. Len(languageStats.languages) - 1 :
             languageStats.languages[i].percentage
                >= languageStats.languages[i + 1].percentage

----------------------------------------------------------------------------
(* normalize/activity.ts: calculateContributionStats and createActivityTimeline.
   Instants are whole hours since day 0, 00:00 UTC; a date string
   (toISOString().split('T')[0]) is the UTC day number of the instant; the
   local time of the process is UTC + tz hours, with no daylight saving. *)

HoursPerDay == 24
DaysPerWeek == 7

\* the day the calls are made on (UTC), and the times of day of the calls
Today == 10
ClockInstants == {Today * HoursPerDay + h : h \in {1, 12}}
\* local time minus UTC, in hours
TimeZones == {-5, 0, 2}
\* committedAt of the commits given to the two functions
CommitDays == {1, 2, 8, 9, 10}
CommitHours == {3, 23}
CommitInstants == {d * HoursPerDay + h : d \in CommitDays, h \in CommitHours}
CommitLists == UNION {[1 .. k -> CommitInstants] : k \in 0 .. MaxCommits}

Max(a, b) == IF a >= b THEN a ELSE b

\* new Date(x).toISOString().split('T')[0]
UTCDate(t) == t \div HoursPerDay

\* setHours(0, 0, 0, 0): the start of the local day of t
LocalMidnight(t, zone) == ((t + zone) \div HoursPerDay) * HoursPerDay - zone

\* setHours(23, 59, 59, 999): the last whole hour of the local day of t
EndOfLocalDay(t, zone) == LocalMidnight(t, zone) + HoursPerDay - 1

\* the Map from date string to number of commits
commitsByDate(commits) ==
    [d \in {UTCDate(commits[i]) : i \in DOMAIN commits} |->
        Cardinality({i \in DOMAIN commits : UTCDate(commits[i]) = d})]

\* Array.from(keys).sort()
RECURSIVE SortedDates(_)
SortedDates(S) ==
    IF S = {} THEN << >>
    ELSE LET least == CHOOSE d \in S : \A e \in S : d <= e
         IN <<least>> \o SortedDates(S \ {least})

\* mutant: every later date continues the streak
IsConsecutive_AnyGap(prevDate, currDate) == currDate - prevDate >= 1

\* daysBetween === 1
IsConsecutive(prevDate, currDate) == currDate - prevDate = 1

\* mutant: the last run is not counted
FinalStreak_NoMax(longestStreak, tempStreak) == longestStreak

\* longestStreak = Math.max(longestStreak, tempStreak) after the loop
FinalStreak(longestStreak, tempStreak) == Max(longestStreak, tempStreak)

\* the loop over sortedDates, from index i
RECURSIVE StreakLoop(_, _, _, _)
StreakLoop(sortedDates, i, longestStreak, tempStreak) ==
    IF i > Len(sortedDates) THEN FinalStreak(longestStreak, tempStreak)
    ELSE IF IsConsecutive(sortedDates[i - 1], sortedDates[i])
         THEN StreakLoop(sortedDates, i + 1, longestStreak, tempStreak + 1)
         ELSE StreakLoop(sortedDates, i + 1, Max(longestStreak, tempStreak), 1)

\* the loop from today backwards; currentDate is an instant
RECURSIVE StreakBack(_, _, _)
StreakBack(dateSet, currentDate, streakCount) ==
    IF UTCDate(currentDate) \in dateSet
    THEN StreakBack(dateSet, currentDate - HoursPerDay, streakCount + 1)
    ELSE streakCount

\* mutant: the weeks are rounded up to whole weeks
AvgPerWeek_WholeWeeks(totalCommits, daysDiff) ==
    RoundHalfUp(totalCommits * 100, Max(1, (daysDiff + DaysPerWeek - 1) \div DaysPerWeek))

\* Math.round((totalCommits / Math.max(1, daysDiff / 7)) * 100) / 100, in hundredths
AvgPerWeek(totalCommits, daysDiff) ==
    IF daysDiff <= DaysPerWeek THEN totalCommits * 100
    ELSE RoundHalfUp(totalCommits * 100 * DaysPerWeek, daysDiff)

calculateContributionStats(commits, clk, zone) ==
    IF Len(commits) = 0 THEN NoStats
    ELSE LET byDate == commitsByDate(commits)
             dates == SortedDates(DOMAIN byDate)
             daysDiff == Max(1, dates[Len(dates)] - dates[1])
         IN [totalCommits |-> Len(commits),
             activeDays |-> Cardinality(DOMAIN byDate),
             avgCommitsPerWeek |-> AvgPerWeek(Len(commits), daysDiff),
             longestStreak |-> StreakLoop(dates, 2, 0, 1),
             currentStreak |-> StreakBack(DOMAIN byDate, LocalMidnight(clk, zone), 0)]

\* the loop that pushes one entry per day from currentDate to endDate
RECURSIVE TimelineLoop(_, _, _)
TimelineLoop(currentDate, endDate, byDate) ==
    IF currentDate <= endDate
    THEN <<[date |-> UTCDate(currentDate),
            commits |-> IF UTCDate(currentDate) \in DOMAIN byDate
                        THEN byDate[UTCDate(currentDate)] ELSE 0]>>
         \o TimelineLoop(currentDate + HoursPerDay, endDate, byDate)
    ELSE << >>

createActivityTimeline(commits, days, clk, zone) ==
    LET endDate == EndOfLocalDay(clk, zone)
        startDate == LocalMidnight(endDate, zone) - days * HoursPerDay
        InRange(commitDate) == commitDate >= startDate /\ commitDate <= endDate
        filteredCommits == SelectSeq(commits, InRange)
    IN TimelineLoop(startDate, endDate, commitsByDate(filteredCommits))

\* calculateContributionStats is called and returns
ComputeStats ==
    /\ apc = "input"
    /\ stats' = calculateContributionStats(commitList, clock, tz)
    /\ apc' = "stats"
    /\ UNCHANGED <<commitList, tz, clock, timelineDays, timeline>>
    /\ UNCHANGED <<coreVars, langVars, commitVars>>

\* createActivityTimeline is called and returns
ComputeTimeline ==
    /\ apc = "input"
    /\ \E days \in 0 .. MaxWindow :
         /\ timelineDays' = days
         /\ timeline' = createActivityTimeline(commitList, days, clock, tz)
    /\ apc' = "timeline"
    /\ UNCHANGED <<commitList, tz, clock, stats>>
    /\ UNCHANGED <<coreVars, langVars, commitVars>>

InitActivity ==
    /\ commitList \in CommitLists
    /\ tz \in TimeZones
    /\ clock \in ClockInstants
    /\ apc = "input"
    /\ stats = NoStats
    /\ timelineDays = 0
    /\ timeline = << >>
    /\ FetchIdle
    /\ RetryIdle
    /\ QuotaIdle /\ PageIdle /\ NetIdle /\ OpsIdle /\ ReqIdle /\ LangIdle /\ CommitIdle

NextActivity == ComputeStats \/ ComputeTimeline

SpecActivity == InitActivity /\ [][NextActivity]_vars

----------------------------------------------------------------------------
(* normalize/activity.ts: claims *)

\* the UTC days on which the input has a commit
ActiveDaySet == {UTCDate(commitList[i]) : i \in DOMAIN commitList}

\* the number of consecutive days of S that end at day d
RunEndingAt(S, d) ==
    CHOOSE k \in 0 .. Cardinality(S) :
        /\ \A j \in 0 .. k - 1 : d - j \in S
        /\ d - k \notin S

\* the length of the longest run of consecutive days of S
LongestRun(S) ==
    IF S = {} THEN 0
    ELSE CHOOSE n \in {RunEndingAt(S, d) : d \in S} :
             \A d \in S : RunEndingAt(S, d) <= n

\* the days between the first and the last active day
SpanDays ==
    IF ActiveDaySet = {} THEN 0
    ELSE LET first == CHOOSE d \in ActiveDaySet : \A e \in ActiveDaySet : d <= e
             last == CHOOSE d \in ActiveDaySet : \A e \in ActiveDaySet : d >= e
         IN last - first

\* the UTC date of the call
TodayUTC == UTCDate(clock)

\* C21: for every commit list, longestStreak is the length of the longest run
\* of consecutive calendar days among the active days (0 for no commits), and
\* activeDays is the number of active days.
C21_LongestStreakIsLongestRun ==
    apc = "stats" =>
        /\ stats.longestStreak = LongestRun(ActiveDaySet)
        /\ stats.activeDays = Cardinality(ActiveDaySet)

\* two runs of lengths 2 and 1 separated by a gap: longestStreak 2, activeDays 3
C21_Witness ==
    /\ apc = "stats"
    /\ ActiveDaySet = {1, 2, 8}
    /\ stats.longestStreak = 2
    /\ stats.activeDays = 3

\* C22 (as claimed): in every time zone, currentStreak is the number of
\* consecutive active days ending at today's UTC date, 0 when today (UTC) has
\* no commit.
C22_CurrentStreakEndsAtUtcToday ==
    apc = "stats" => stats.currentStreak = RunEndingAt(ActiveDaySet, TodayUTC)

\* the whole weeks the claim divides by
WholeWeeks == Max(1, (SpanDays + DaysPerWeek - 1) \div DaysPerWeek)

\* C23 (as claimed): avgCommitsPerWeek is totalCommits divided by
\* max(1, ceil(spanDays / 7)), a whole number of weeks (to 2 decimal places).
C23_AvgUsesWholeWeeks ==
    (apc = "stats" /\ commitList # << >>) =>
        2 * Abs(stats.avgCommitsPerWeek * WholeWeeks - Len(commitList) * 100) <= WholeWeeks

\* C23 (amended): avgCommitsPerWeek is totalCommits divided by
\* max(1, spanDays / 7), the span in weeks not rounded up, to 2 decimal
\* places; a span of up to 7 days gives avgCommitsPerWeek = totalCommits.
C23_AvgUsesFractionalWeeks ==
    (apc = "stats" /\ commitList # << >>) =>
        LET sevenths == Max(DaysPerWeek, SpanDays)
        IN /\ 2 * Abs(stats.avgCommitsPerWeek * sevenths
                        - Len(commitList) * 100 * DaysPerWeek) <= sevenths
           /\ SpanDays <= DaysPerWeek => stats.avgCommitsPerWeek = Len(commitList) * 100

\* three commits over a span of 9 days: 3 / (9 / 7) = 2.33 commits per week
C23_Witness ==
    /\ apc = "stats"
    /\ Len(commitList) = 3
    /\ SpanDays = 9
    /\ stats.avgCommitsPerWeek = 233

\* C29: for a non-empty commit list 1 <= longestStreak <= activeDays <=
\* totalCommits and 0 <= currentStreak <= longestStreak, with totalCommits the
\* number of commits and activeDays the number of distinct UTC days; for the
\* empty list all five fields are 0.
C29_StatsOrdering ==
    apc = "stats" =>
        IF commitList = << >> THEN stats = NoStats
        ELSE /\ stats.totalCommits = Len(commitList)
             /\ stats.activeDays = Cardinality(ActiveDaySet)
             /\ 1 <= stats.longestStreak
             /\ stats.longestStreak <= stats.activeDays
             /\ stats.activeDays <= stats.totalCommits
             /\ 0 <= stats.currentStreak
             /\ stats.currentStreak <= stats.longestStreak

\* three commits on two days that are not adjacent, none today: every
\* inequality is strict
C29_Witness ==
    /\ apc = "stats"
    /\ stats.totalCommits = 3
    /\ stats.activeDays = 2
    /\ stats.longestStreak = 1
    /\ stats.currentStreak = 0

\* C24 (as claimed): for every window N and every time zone the timeline has
\* N + 1 entries, one per consecutive calendar day, the first being today
\* minus N days and the last today, as UTC dates.
C24_TimelineSpansUtcWindow ==
    apc = "timeline" =>
        /\ Len(timeline) = timelineDays + 1
        /\ \A i \in DOMAIN timeline :
               timeline[i].date = TodayUTC - timelineDays + (i - 1)

\* the input commits whose UTC day is d
CommitsOn(d) == Cardinality({i \in DOMAIN commitList : UTCDate(commitList[i]) = d})

\* the sum of the commit counts of the entries
RECURSIVE SumCounts(_)
SumCounts(entries) ==
    IF entries = << >> THEN 0 ELSE Head(entries).commits + SumCounts(Tail(entries))

\* C25 (as claimed): each entry's count is the number of input commits whose
\* UTC day is the entry's date, and the counts sum to the number of input
\* commits whose UTC day lies in the window of the last N + 1 UTC days.
C25_CountsByUtcDay ==
    apc = "timeline" =>
        /\ \A i \in DOMAIN timeline : timeline[i].commits = CommitsOn(timeline[i].date)
        /\ SumCounts(timeline) =
               Cardinality({i \in DOMAIN commitList :
                   UTCDate(commitList[i]) \in TodayUTC - timelineDays .. TodayUTC})

----------------------------------------------------------------------------
(* github/commits.ts: fetchUserCommits, with the lists it works on.  A
   repository is [name, updated_at], a commit [date, repository]; dates are
   numbers, larger is later. *)

DefaultPerPage == 30

\* options?.perPage
PerPageValues == {Undef} \cup {Num(n) : n \in 1 .. MaxPerPage}

\* n repositories whose updated_at values go up and down along the list
RepoList(n, step, modulus) ==
    [i \in 1 .. n |-> [name |-> i, updated_at |-> (i * step) % modulus]]

\* the repositories argument: none, a few, more than ten, some updated at the same time
RepositoryLists ==
    {RepoList(n, step, 13) : n \in {0, 2, 5, 12}, step \in {1, 5}} \cup {RepoList(11, 1, 4)}

\* params.set('per_page', ...)
PerPageParam(perPage) == IF Truthy(perPage) THEN perPage.v ELSE DefaultPerPage

\* (a, b) => new Date(b.updated_at).getTime() - new Date(a.updated_at).getTime()
compareUpdated(a, b) == b.updated_at - a.updated_at

\* (a, b) => new Date(b.commit.author.date).getTime() - new Date(a.commit.author.date).getTime()
compareDate(a, b) == b.date - a.date

\* Array.prototype.sort is stable: an element goes before another when it
\* compares before it, or compares equal and came first.  Placed pairs each
\* index with its place in the sorted list.
PlacedByUpdated(repos) ==
    {<<i, 1 + Cardinality({j \in DOMAIN repos :
                \/ compareUpdated(repos[j], repos[i]) < 0
                \/ compareUpdated(repos[j], repos[i]) = 0 /\ j < i})>> : i \in DOMAIN repos}

SortByUpdated(repos) ==
    LET placed == PlacedByUpdated(repos)
    IN [k \in 1 .. Len(repos) |-> repos[(CHOOSE p \in placed : p[2] = k)[1]]]

PlacedByDate(commits) ==
    {<<i, 1 + Cardinality({j \in DOMAIN commits :
                \/ compareDate(commits[j], commits[i]) < 0
                \/ compareDate(commits[j], commits[i]) = 0 /\ j < i})>> : i \in DOMAIN commits}

SortByDate(commits) ==
    LET placed == PlacedByDate(commits)
    IN [k \in 1 .. Len(commits) |-> commits[(CHOOSE p \in placed : p[2] = k)[1]]]

\* mutant: every repository is checked
TopRepos_All(sorted) == sorted

\* .slice(0, 10)
TopRepos(sorted) == SubSeq(sorted, 1, Min(Len(sorted), ReposToCheck))

\* the commits of one response, newest first, tagged with the repository
Batch(repo, size) ==
    [j \in 1 .. size |-> [date |-> 500 + repo.name - 4 * j, repository |-> repo.name]]

\* the commits by the author a repository holds: many, none or one
AuthoredCommits(repo) ==
    IF repo.name % 2 = 0 THEN 40 ELSE IF repo.name % 4 = 1 THEN 0 ELSE 1

\* the commits the provider returns for a repository: at most one page
ResponseSize(repo, perPage) == Min(AuthoredCommits(repo), PerPageParam(perPage))

\* allCommits.sort(...); return allCommits.slice(0, limit)
SortAndLimit(commits, perPage) ==
    SubSeq(SortByDate(commits), 1, Min(Len(commits), CommitLimit(perPage)))

\* the loop goes on to the next repository, or ends and the function returns
NextRepoOrReturn(commits) ==
    IF commitIndex < Len(reposToCheck)
    THEN /\ commitIndex' = commitIndex + 1
         /\ UNCHANGED <<cpc, commitsResult>>
    ELSE /\ cpc' = "returned"
         /\ commitsResult' = SortAndLimit(commits, commitOptions)
         /\ UNCHANGED commitIndex

\* fetchUserCommits is called: it sorts and cuts the repositories and issues
\* the first request, or returns at once when there is no repository
CallFetchUserCommits ==
    /\ cpc = "input"
    /\ reposToCheck' = TopRepos(SortByUpdated(repositories))
    /\ IF reposToCheck' = << >>
       THEN /\ cpc' = "returned"
            /\ commitIndex' = 0
       ELSE /\ cpc' = "awaitCommits"
            /\ commitIndex' = 1
    /\ commitsResult' = << >>
    /\ UNCHANGED <<repositories, commitOptions, allCommits, commitOutcome>>
    /\ UNCHANGED <<coreVars, langVars, statVars>>

\* the request in flight returns its commits
CommitsFulfilled ==
    /\ cpc = "awaitCommits"
    /\ allCommits' = allCommits \o Batch(reposToCheck[commitIndex],
                                          ResponseSize(reposToCheck[commitIndex], commitOptions))
    /\ IF Len(allCommits') >= CommitLimit(commitOptions)
       THEN /\ cpc' = "returned"
            /\ commitsResult' = SortAndLimit(allCommits', commitOptions)
            /\ UNCHANGED commitIndex
       ELSE NextRepoOrReturn(allCommits')
    /\ commitOutcome' = "fulfilled"
    /\ UNCHANGED <<repositories, commitOptions, reposToCheck>>
    /\ UNCHANGED <<coreVars, langVars, statVars>>

\* the request in flight fails: the repository is skipped
CommitsRejected ==
    /\ cpc = "awaitCommits"
    /\ NextRepoOrReturn(allCommits)
    /\ commitOutcome' = "rejected"
    /\ UNCHANGED <<repositories, commitOptions, reposToCheck, allCommits>>
    /\ UNCHANGED <<coreVars, langVars, statVars>>

InitCommits ==
    /\ repositories \in RepositoryLists
    /\ commitOptions \in PerPageValues
    /\ cpc = "input"
    /\ reposToCheck = << >>
    /\ commitIndex = 0
    /\ allCommits = << >>
    /\ commitOutcome = "none"
    /\ commitsResult = << >>
    /\ FetchIdle
    /\ RetryIdle
    /\ QuotaIdle /\ PageIdle /\ NetIdle /\ OpsIdle /\ ReqIdle /\ LangIdle /\ StatIdle

NextCommits == CallFetchUserCommits \/ CommitsFulfilled \/ CommitsRejected

SpecCommits == InitCommits /\ [][NextCommits]_vars

----------------------------------------------------------------------------
(* fetchUserCommits: claims *)

\* the repositories of a list, as a set
Repos(list) == {list[i] : i \in DOMAIN list}

====
